---------------------------- MODULE Spec2Model ----------------------------
(***************************************************************************)
(* In-game lineup state machine of the Sports-Management-App.              *)
(*                                                                         *)
(* The model follows one game of the TeamContext provider (the context     *)
(* file, src/unnamed/part_000) and the GamePage handlers that drive it     *)
(* (src/src/pages/GamePage.tsx).                                           *)
(*                                                                         *)
(*   Spec      the program as it is wired: the GamePage handlers call the  *)
(*             context functions with the arguments the page computes.     *)
(*   CoreSpec  the context functions called directly, with any arguments,  *)
(*             as the exported TeamContext interface allows.               *)
(*                                                                         *)
(* Time is Date.now() in milliseconds.  A timestamp of null is written 0:  *)
(* the code tests timestamps by truthiness, and Date.now() is never 0.     *)
(***************************************************************************)
EXTENDS Integers, Sequences, FiniteSets, TLC

\* ------------------------------------------------------------------ bounds
\* Granularity of Date.now() in the model, in milliseconds.
TickMs == 250
\* Number of clock ticks after which time stops advancing.
MaxTicks == 2
\* Cap on each substitution counter.
MaxSubs == 1
\* Number of operations (handler events or context calls) in a behaviour.
MaxOps == 5
\* Number of direct context calls in a behaviour of CoreSpec.
MaxCalls == 4
\* Number of player ids ever handed out (uuidv4 never repeats one).
MaxPlayers == 4
\* Number of games added after the first.
MaxAddedGames == 1

\* --------------------------------------------------------------- constants
\* null / undefined timestamps (playtimerStartTime, timerStartTime)
Null == 0
\* position: undefined
Undefined == <<>>
ICON_WIDTH_APPROX == 40
ICON_HEIGHT_APPROX == 58
\* fieldDimensions of the rendered field, in pixels
FieldWidth == 800
FieldHeight == 1160

\* The roster (`players`): ids in roster order.
PlayerIds == {1, 2}
Locations == {"field", "bench", "inactive"}
\* Drop coordinates (xPercent, yPercent) the pointer can release at.
DropCoords == {<<20, 50>>, <<22, 50>>, <<60, 50>>}

\* newPosition arguments of a direct movePlayerInGame call.
CallPositions == {<<20, 50>>, Undefined}

VARIABLES
    game,            \* the Game record kept in `games` (timer fields + lineup)
    players,         \* the roster (`players` state): the ids of its players
    storedPlayers,   \* localStorage 'players': the roster as last saved
    otherGames,      \* the games added to `games` after `game`
    isPlanningSubs,  \* GamePage planning-mode flag
    plannedSwaps,    \* GamePage staged plans, in Map insertion order
    now,             \* Date.now()
    op,              \* history: the operation that produced this state
    steps,           \* history: number of operations taken so far
    everStarted,     \* history: the clock has been started in this game
    firstStarters,   \* history: ids on field when the clock first started
    fieldRunMs,      \* history: ms each entry spent on field with the clock running
    banks,           \* history: number of times each entry's timer was banked
    benchToField,    \* history: bench->field location changes per entry
    fieldToBench,    \* history: field->bench location changes per entry
    call,            \* history: what the recorded operation that produced this state was given
    gameDisplaySeconds,  \* GamePage display state: the game clock shown, in ms
    playerDisplayTimes,  \* GamePage display state: the playtime shown per player, in ms
    pendingUpdates       \* React: state updates queued by the running event handler

progVars == <<game, players, storedPlayers, otherGames, isPlanningSubs, plannedSwaps>>
\* the roster, its saved copy and the other games
teamVars == <<players, storedPlayers, otherGames>>
histVars == <<op, steps, everStarted, firstStarters, fieldRunMs, banks, benchToField,
             fieldToBench, call>>
vars == <<game, players, storedPlayers, otherGames, isPlanningSubs, plannedSwaps, now, op, steps, everStarted, firstStarters,
          fieldRunMs, banks, benchToField, fieldToBench, call,
          gameDisplaySeconds, playerDisplayTimes, pendingUpdates>>
\* the display state of GamePage
displayVars == <<gameDisplaySeconds, playerDisplayTimes>>

\* The value of `call` in a state that no recorded call produced.
NoCall == <<>>

\* ----------------------------------------------------------- pure helpers
\* Faulty variant of MathRound: rounds every started second up (Math.ceil).
MathRound_ceil(seconds, ms) == (seconds * 1000 + ms + 999) \div 1000

\* Math.round(seconds + ms / 1000) for non-negative arguments
\* (Math.round rounds a half up).
MathRound(seconds, ms) == (seconds * 1000 + ms + 500) \div 1000

\* createDefaultLineup: every player on bench, zeroed
createDefaultLineup(currentPlayers) ==
    [p \in currentPlayers |->
        [location |-> "bench", position |-> Undefined, playtimeSeconds |-> 0,
         playtimerStartTime |-> Null, isStarter |-> FALSE,
         subbedOnCount |-> 0, subbedOffCount |-> 0]]

\* addGame: the new game record
addGame(currentPlayers) ==
    [homeScore |-> 0, awayScore |-> 0,
     timerStatus |-> "stopped", timerStartTime |-> Null, timerElapsedSeconds |-> 0,
     isExplicitlyFinished |-> FALSE, lineup |-> createDefaultLineup(currentPlayers)]

\* updateGameScore(gameId, homeScore, awayScore), the updater applied to the game
updateGameScore(g, homeScore, awayScore) ==
    [g EXCEPT !.homeScore = homeScore, !.awayScore = awayScore]

\* loadFromLocalStorage('games'): a stored game whose lineup was no array is
\* loaded with lineup: null (the record has no lineup field)
loadedGameWithoutLineup ==
    [homeScore |-> 0, awayScore |-> 0,
     timerStatus |-> "stopped", timerStartTime |-> Null, timerElapsedSeconds |-> 0,
     isExplicitlyFinished |-> FALSE]


\* ------------------------------------------------------- game clock (core)
\* Faulty variant of isStartingFresh: every start counts as a fresh start.
isStartingFresh_always(g) == TRUE

\* startGameTimer: "Check if starting from 00:00 to mark starters"
isStartingFresh(g) == g.timerElapsedSeconds = 0

\* Faulty variant of startPlayerEntry: starts the timer but marks no starter.
startPlayerEntry_neverMarks(p, fresh, t) ==
    [p EXCEPT !.playtimerStartTime = IF p.location = "field" THEN t
                                     ELSE p.playtimerStartTime]

\* Faulty variant of startPlayerEntry: starts the timers of starters only.
startPlayerEntry_startersOnly(p, fresh, t) ==
    LET isFieldPlayer == p.location = "field"
        starter == IF fresh THEN isFieldPlayer ELSE p.isStarter IN
    [p EXCEPT !.playtimerStartTime = IF isFieldPlayer /\ starter THEN t
                                     ELSE p.playtimerStartTime,
              !.isStarter = starter]

\* startGameTimer: the per-entry update of the lineup map
startPlayerEntry(p, fresh, t) ==
    LET isFieldPlayer == p.location = "field" IN
    [p EXCEPT !.playtimerStartTime = IF isFieldPlayer THEN t ELSE p.playtimerStartTime,
              !.isStarter = IF fresh THEN isFieldPlayer ELSE p.isStarter]

\* Faulty variant of startGameTimer: starts the clock of a finished game too.
startGameTimer_unguarded(g, t) ==
    [g EXCEPT !.timerStatus = "running",
              !.timerStartTime = t,
              !.isExplicitlyFinished = FALSE,
              !.lineup = [id \in DOMAIN g.lineup |->
                             startPlayerEntry(g.lineup[id], isStartingFresh(g), t)]]

\* startGameTimer(gameId), the updater applied to the game; t = Date.now()
startGameTimer(g, t) ==
    IF ~g.isExplicitlyFinished
    THEN [g EXCEPT !.timerStatus = "running",
                   !.timerStartTime = t,
                   !.isExplicitlyFinished = FALSE,
                   !.lineup = [id \in DOMAIN g.lineup |->
                                  startPlayerEntry(g.lineup[id], isStartingFresh(g), t)]]
    ELSE g

\* Faulty variant of stopPlayerEntry: stores the elapsed interval instead of
\* adding it to the banked playtime.
stopPlayerEntry_overwrites(p, t) ==
    IF p.location \in {"field", "inactive"} /\ p.playtimerStartTime # Null
    THEN [p EXCEPT !.playtimeSeconds = MathRound(0, t - p.playtimerStartTime),
                   !.playtimerStartTime = Null]
    ELSE p

\* Faulty variant of stopPlayerEntry: banks the time but leaves the start
\* time set.
stopPlayerEntry_keepsStart(p, t) ==
    IF p.location \in {"field", "inactive"} /\ p.playtimerStartTime # Null
    THEN [p EXCEPT !.playtimeSeconds = MathRound(p.playtimeSeconds, t - p.playtimerStartTime)]
    ELSE p

\* stopGameTimer / markGameAsFinished: the per-entry update of the lineup map
\* (field or inactive with a start time: bank and clear)
stopPlayerEntry(p, t) ==
    IF p.location \in {"field", "inactive"} /\ p.playtimerStartTime # Null
    THEN [p EXCEPT !.playtimeSeconds = MathRound(p.playtimeSeconds, t - p.playtimerStartTime),
                   !.playtimerStartTime = Null]
    ELSE p

\* Faulty variant of stopGameTimer: truncates the elapsed time (Math.floor).
stopGameTimer_floor(g, t) ==
    IF g.timerStatus = "running" /\ g.timerStartTime # Null
    THEN [g EXCEPT !.timerStatus = "stopped",
                   !.timerStartTime = Null,
                   !.timerElapsedSeconds =
                       (g.timerElapsedSeconds * 1000 + (t - g.timerStartTime)) \div 1000,
                   !.lineup = [id \in DOMAIN g.lineup |-> stopPlayerEntry(g.lineup[id], t)]]
    ELSE g

\* Faulty variant of stopGameTimer: the start time is left in place.
stopGameTimer_keepsStartTime(g, t) ==
    IF g.timerStatus = "running" /\ g.timerStartTime # Null
    THEN [g EXCEPT !.timerStatus = "stopped",
                   !.timerElapsedSeconds = MathRound(g.timerElapsedSeconds, t - g.timerStartTime),
                   !.lineup = [id \in DOMAIN g.lineup |-> stopPlayerEntry(g.lineup[id], t)]]
    ELSE g

\* stopGameTimer(gameId), the updater applied to the game
stopGameTimer(g, t) ==
    IF g.timerStatus = "running" /\ g.timerStartTime # Null
    THEN [g EXCEPT !.timerStatus = "stopped",
                   !.timerStartTime = Null,
                   !.timerElapsedSeconds = MathRound(g.timerElapsedSeconds, t - g.timerStartTime),
                   !.lineup = [id \in DOMAIN g.lineup |-> stopPlayerEntry(g.lineup[id], t)]]
    ELSE g

\* Faulty variant of markGameAsFinished: banks the game clock but leaves the
\* entries' timers as they are.
markGameAsFinished_skipsLineup(g, t) ==
    LET wasRunning == g.timerStatus = "running" /\ g.timerStartTime # Null IN
    [g EXCEPT !.timerStatus = "stopped",
              !.timerStartTime = Null,
              !.timerElapsedSeconds =
                  IF wasRunning THEN MathRound(g.timerElapsedSeconds, t - g.timerStartTime)
                  ELSE g.timerElapsedSeconds,
              !.isExplicitlyFinished = TRUE]

\* markGameAsFinished(gameId), the updater applied to the game
markGameAsFinished(g, t) ==
    LET wasRunning == g.timerStatus = "running" /\ g.timerStartTime # Null IN
    [g EXCEPT !.timerStatus = "stopped",
              !.timerStartTime = Null,
              !.timerElapsedSeconds =
                  IF wasRunning THEN MathRound(g.timerElapsedSeconds, t - g.timerStartTime)
                  ELSE g.timerElapsedSeconds,
              !.isExplicitlyFinished = TRUE,
              !.lineup = IF wasRunning
                         THEN [id \in DOMAIN g.lineup |-> stopPlayerEntry(g.lineup[id], t)]
                         ELSE g.lineup]

\* resetGameLineup(gameId): the value returned, createDefaultLineup of the
\* roster read from localStorage
resetGameLineupReturn(currentPlayers) == createDefaultLineup(currentPlayers)

\* Faulty variant of resetGameLineup: re-benches the entries but keeps their
\* substitution counters.
resetGameLineup_keepsCounters(g, currentPlayers) ==
    [g EXCEPT !.lineup =
        [p \in currentPlayers |->
            IF p \in DOMAIN g.lineup
            THEN [createDefaultLineup(currentPlayers)[p] EXCEPT
                      !.subbedOnCount = g.lineup[p].subbedOnCount,
                      !.subbedOffCount = g.lineup[p].subbedOffCount]
            ELSE createDefaultLineup(currentPlayers)[p]]]

\* Faulty variant of resetGameLineup: the clock is stopped with the lineup.
resetGameLineup_stopsClock(g, currentPlayers) ==
    [g EXCEPT !.lineup = createDefaultLineup(currentPlayers),
              !.timerStatus = "stopped",
              !.timerStartTime = Null]

\* resetGameLineup(gameId): the updater applied to the game, whose lineup
\* becomes that default lineup
resetGameLineup(g, currentPlayers) ==
    [g EXCEPT !.lineup = createDefaultLineup(currentPlayers)]

\* ------------------------------------------------------------ roster (core)
\* addPlayer: the lineup of a game after the new player's entry is appended
addPlayerToLineup(lineup, newPlayerId) ==
    [p \in DOMAIN lineup \cup {newPlayerId} |->
        IF p = newPlayerId THEN createDefaultLineup({newPlayerId})[newPlayerId]
        ELSE lineup[p]]

\* addPlayer: the roster set by setPlayersState, built on the roster read
\* from localStorage
addPlayerRoster(currentPlayers, newPlayerId) == currentPlayers \cup {newPlayerId}

\* deletePlayer: the lineup of a game with the player's entry filtered out
deletePlayerFromLineup(lineup, id) == [p \in DOMAIN lineup \ {id} |-> lineup[p]]

\* --------------------------------------------------- movePlayerInGame (core)
\* Timer logic, step 1: stop when moving FROM field or inactive with a timer
moveStopsTimer(ps, sourceLocation) ==
    sourceLocation \in {"field", "inactive"} /\ ps.playtimerStartTime # Null

\* Faulty variant of moveUpdatedPlaytime: the running interval is dropped
\* instead of banked.
moveUpdatedPlaytime_discards(ps, sourceLocation, t) ==
    ps.playtimeSeconds

\* Timer logic: updatedPlaytime
moveUpdatedPlaytime(ps, sourceLocation, t) ==
    IF moveStopsTimer(ps, sourceLocation)
    THEN MathRound(ps.playtimeSeconds, t - ps.playtimerStartTime)
    ELSE ps.playtimeSeconds

\* Faulty variant of moveUpdatedStartTime: starts the timer of an entry that
\* enters the field even when the game clock is stopped.
moveUpdatedStartTime_startsWhenStopped(ps, sourceLocation, targetLocation, isGameRunning, t) ==
    LET afterStop == IF moveStopsTimer(ps, sourceLocation) THEN Null
                     ELSE ps.playtimerStartTime IN
    IF targetLocation = "field"
    THEN (IF afterStop = Null THEN t ELSE afterStop)
    ELSE Null

\* Faulty variant of moveUpdatedStartTime: an entry that enters the field
\* gets no timer.
moveUpdatedStartTime_neverStarts(ps, sourceLocation, targetLocation, isGameRunning, t) ==
    LET afterStop == IF moveStopsTimer(ps, sourceLocation) THEN Null
                     ELSE ps.playtimerStartTime IN
    IF targetLocation # "field" THEN Null ELSE afterStop

\* Timer logic, steps 1 and 2: the start time after the move
moveUpdatedStartTime(ps, sourceLocation, targetLocation, isGameRunning, t) ==
    LET afterStop == IF moveStopsTimer(ps, sourceLocation) THEN Null
                     ELSE ps.playtimerStartTime IN
    IF targetLocation = "field" /\ isGameRunning
    THEN (IF afterStop = Null THEN t ELSE afterStop)
    ELSE IF targetLocation # "field" THEN Null
    ELSE afterStop

\* Faulty variant of moveSubbedOnCount: counts every entry onto the field.
moveSubbedOnCount_anyEntry(ps, sourceLocation, targetLocation) ==
    IF sourceLocation # "field" /\ targetLocation = "field"
    THEN ps.subbedOnCount + 1 ELSE ps.subbedOnCount

\* Substitution counter logic
moveSubbedOnCount(ps, sourceLocation, targetLocation) ==
    IF sourceLocation = "bench" /\ targetLocation = "field"
    THEN ps.subbedOnCount + 1 ELSE ps.subbedOnCount

\* Faulty variant of moveSubbedOffCount: never counts a substitution off.
moveSubbedOffCount_never(ps, sourceLocation, targetLocation) == ps.subbedOffCount

moveSubbedOffCount(ps, sourceLocation, targetLocation) ==
    IF sourceLocation = "bench" /\ targetLocation = "field" THEN ps.subbedOffCount
    ELSE IF sourceLocation = "field" /\ targetLocation = "bench"
    THEN ps.subbedOffCount + 1 ELSE ps.subbedOffCount

\* Faulty variant of movePosition: the condition is reversed.
movePosition_reversed(targetLocation, newPosition) ==
    IF targetLocation # "field" THEN newPosition ELSE Undefined

\* Structural update: position
movePosition(targetLocation, newPosition) ==
    IF targetLocation = "field" THEN newPosition ELSE Undefined

\* Faulty variant of movePlayerInGame: an entry that leaves the field loses
\* its starter flag.
movePlayerInGame_unmarksStarter(g, playerId, sourceLocation, targetLocation, newPosition, t) ==
    IF playerId \notin DOMAIN g.lineup THEN g
    ELSE
    LET ps == g.lineup[playerId]
        isGameRunning == g.timerStatus = "running"
        playerState ==
            [ps EXCEPT !.location = targetLocation,
                       !.position = movePosition(targetLocation, newPosition),
                       !.playtimeSeconds = moveUpdatedPlaytime(ps, sourceLocation, t),
                       !.playtimerStartTime =
                           moveUpdatedStartTime(ps, sourceLocation, targetLocation,
                                                isGameRunning, t),
                       !.isStarter = ps.isStarter /\ targetLocation = "field",
                       !.subbedOnCount = moveSubbedOnCount(ps, sourceLocation, targetLocation),
                       !.subbedOffCount = moveSubbedOffCount(ps, sourceLocation, targetLocation)]
    IN [g EXCEPT !.lineup = [g.lineup EXCEPT ![playerId] = playerState]]

\* movePlayerInGame(gameId, playerId, sourceLocation, targetLocation, newPosition),
\* the updater applied to the game
movePlayerInGame(g, playerId, sourceLocation, targetLocation, newPosition, t) ==
    IF playerId \notin DOMAIN g.lineup THEN g
    ELSE
    LET ps == g.lineup[playerId]
        isGameRunning == g.timerStatus = "running"
        playerState ==
            [ps EXCEPT !.location = targetLocation,
                       !.position = movePosition(targetLocation, newPosition),
                       !.playtimeSeconds = moveUpdatedPlaytime(ps, sourceLocation, t),
                       !.playtimerStartTime =
                           moveUpdatedStartTime(ps, sourceLocation, targetLocation,
                                                isGameRunning, t),
                       !.subbedOnCount = moveSubbedOnCount(ps, sourceLocation, targetLocation),
                       !.subbedOffCount = moveSubbedOffCount(ps, sourceLocation, targetLocation)]
    IN [g EXCEPT !.lineup = [g.lineup EXCEPT ![playerId] = playerState]]

\* Faulty variant of movePlayerInGameUpdater: a game id that no game has
\* falls back to the first game of the array.
movePlayerInGameUpdater_firstGame(prevGames, gameId, playerId, sourceLocation, targetLocation, newPosition, t) ==
    LET gameIndex == IF gameId \in 1..Len(prevGames) THEN gameId ELSE 1
    IN IF "lineup" \notin DOMAIN prevGames[gameIndex] THEN prevGames
       ELSE IF playerId \notin DOMAIN prevGames[gameIndex].lineup THEN prevGames
       ELSE [prevGames EXCEPT ![gameIndex] =
                movePlayerInGame(@, playerId, sourceLocation, targetLocation,
                                 newPosition, t)]

\* movePlayerInGame: the updater applied to the games array.  A game id is
\* the game's index in the array; findIndex gives -1 for any other id.
movePlayerInGameUpdater(prevGames, gameId, playerId, sourceLocation, targetLocation, newPosition, t) ==
    IF gameId \notin 1..Len(prevGames) THEN prevGames
    ELSE IF "lineup" \notin DOMAIN prevGames[gameId] THEN prevGames
    ELSE IF playerId \notin DOMAIN prevGames[gameId].lineup THEN prevGames
    ELSE [prevGames EXCEPT ![gameId] =
             movePlayerInGame(@, playerId, sourceLocation, targetLocation,
                              newPosition, t)]

\* ------------------------------------------------- GamePage: drag and drop
\* iconWPercent / iconHPercent of handleDropInGame
iconWPercent == (ICON_WIDTH_APPROX * 100) \div FieldWidth
iconHPercent == (ICON_HEIGHT_APPROX * 100) \div FieldHeight

\* The hit test of handleDropInGame: the drop point lies strictly inside the
\* icon box around a field player's position (all terms doubled).
inIconBox(position, xPercent, yPercent) ==
    /\ 2 * xPercent > 2 * position[1] - iconWPercent
    /\ 2 * xPercent < 2 * position[1] + iconWPercent
    /\ 2 * yPercent > 2 * position[2] - iconHPercent
    /\ 2 * yPercent < 2 * position[2] + iconHPercent

\* targetPlayerStructure: the first field player, other than the dropped one,
\* whose icon box holds the drop point (0 when there is none).  The lineup
\* array is in id order.
targetPlayerStructure(lineup, droppedPlayerId, xPercent, yPercent) ==
    LET hits == {fp \in DOMAIN lineup \ {droppedPlayerId} :
                    /\ lineup[fp].location = "field"
                    /\ lineup[fp].position # Undefined
                    /\ inIconBox(lineup[fp].position, xPercent, yPercent)}
    IN IF hits = {} THEN 0 ELSE CHOOSE fp \in hits : \A other \in hits : fp <= other

\* The drag item of DraggablePlayer: { id, location, position } of the entry
dragItem(lineup, id) ==
    [id |-> id, location |-> lineup[id].location, position |-> lineup[id].position]

\* Faulty variant of dropInGame: a drop on the field always places the
\* dropped player at the drop coordinate, occupied or not.
dropInGame_noSwap(g, planning, item, targetLocation, xPercent, yPercent, t) ==
    IF planning \/ item.id \notin DOMAIN g.lineup THEN g
    ELSE IF targetLocation = "field"
    THEN movePlayerInGame(g, item.id, item.location, "field", <<xPercent, yPercent>>, t)
    ELSE IF item.location # targetLocation
    THEN movePlayerInGame(g, item.id, item.location, targetLocation, Undefined, t)
    ELSE g

\* Faulty variant of dropInGame: drops are carried out in planning mode too.
dropInGame_ignoresPlanning(g, planning, item, targetLocation, xPercent, yPercent, t) ==
    LET droppedPlayerId == item.id
        sourceLocation == item.location
    IN
    IF droppedPlayerId \notin DOMAIN g.lineup THEN g
    ELSE IF targetLocation = "field"
    THEN LET target == targetPlayerStructure(g.lineup, droppedPlayerId, xPercent, yPercent) IN
         IF target # 0
         THEN LET replacedTo ==
                      movePlayerInGame(g, target, "field", sourceLocation,
                          IF sourceLocation = "field"
                          THEN g.lineup[droppedPlayerId].position ELSE Undefined, t)
              IN movePlayerInGame(replacedTo, droppedPlayerId, sourceLocation, "field",
                                  g.lineup[target].position, t)
         ELSE movePlayerInGame(g, droppedPlayerId, sourceLocation, "field",
                               <<xPercent, yPercent>>, t)
    ELSE IF sourceLocation # targetLocation
    THEN movePlayerInGame(g, droppedPlayerId, sourceLocation, targetLocation, Undefined, t)
    ELSE g

\* handleDropInGame(item, targetLocation, xPercent, yPercent): the game after
\* the movePlayerInGame calls the handler makes
dropInGame(g, planning, item, targetLocation, xPercent, yPercent, t) ==
    LET droppedPlayerId == item.id
        sourceLocation == item.location
    IN
    IF planning \/ droppedPlayerId \notin DOMAIN g.lineup THEN g
    ELSE IF targetLocation = "field"
    THEN LET target == targetPlayerStructure(g.lineup, droppedPlayerId, xPercent, yPercent) IN
         IF target # 0
         THEN LET replacedTo ==
                      movePlayerInGame(g, target, "field", sourceLocation,
                          IF sourceLocation = "field"
                          THEN g.lineup[droppedPlayerId].position ELSE Undefined, t)
              IN movePlayerInGame(replacedTo, droppedPlayerId, sourceLocation, "field",
                                  g.lineup[target].position, t)
         ELSE movePlayerInGame(g, droppedPlayerId, sourceLocation, "field",
                               <<xPercent, yPercent>>, t)
    ELSE IF sourceLocation # targetLocation
    THEN movePlayerInGame(g, droppedPlayerId, sourceLocation, targetLocation, Undefined, t)
    ELSE g

\* ------------------------------------------------- GamePage: planning mode
\* Faulty variant of planDrop: keeps the plan that already targets the slot.
planDrop_keepsPrior(swaps, draggedPlayerId, targetPlayerId, targetPosition) ==
    Append(SelectSeq(swaps, LAMBDA e : e.benchPlayerId # draggedPlayerId),
           [benchPlayerId |-> draggedPlayerId,
            targetFieldPlayerId |-> targetPlayerId,
            targetPosition |-> targetPosition])

\* Faulty variant of planDrop: the dragged player's earlier plan is kept
\* beside the new one.
planDrop_keepsOwn(swaps, draggedPlayerId, targetPlayerId, targetPosition) ==
    LET existing == {i \in 1..Len(swaps) : swaps[i].targetFieldPlayerId = targetPlayerId}
        first == IF existing = {} THEN 0
                 ELSE CHOOSE i \in existing : \A j \in existing : i <= j
        keep == SelectSeq(swaps, LAMBDA e :
                    first = 0 \/ e.benchPlayerId # swaps[first].benchPlayerId)
    IN Append(keep, [benchPlayerId |-> draggedPlayerId,
                     targetFieldPlayerId |-> targetPlayerId,
                     targetPosition |-> targetPosition])

\* handlePlanDrop: the plannedSwaps map after staging dragged -> target
planDrop(swaps, draggedPlayerId, targetPlayerId, targetPosition) ==
    LET existing == {i \in 1..Len(swaps) : swaps[i].targetFieldPlayerId = targetPlayerId}
        first == IF existing = {} THEN 0
                 ELSE CHOOSE i \in existing : \A j \in existing : i <= j
        keep == SelectSeq(swaps, LAMBDA e :
                    /\ (first = 0 \/ e.benchPlayerId # swaps[first].benchPlayerId)
                    /\ e.benchPlayerId # draggedPlayerId)
    IN Append(keep, [benchPlayerId |-> draggedPlayerId,
                     targetFieldPlayerId |-> targetPlayerId,
                     targetPosition |-> targetPosition])

\* handleConfirmPlan: plannedSwaps.forEach, two movePlayerInGame calls per plan
RECURSIVE confirmPlan(_, _, _)
confirmPlan(g, swaps, t) ==
    IF swaps = <<>> THEN g
    ELSE LET e == Head(swaps)
             benched == movePlayerInGame(g, e.targetFieldPlayerId, "field", "bench",
                                         Undefined, t)
             fielded == movePlayerInGame(benched, e.benchPlayerId, "bench", "field",
                                         e.targetPosition, t)
         IN confirmPlan(fielded, Tail(swaps), t)

\* ---------------------------------------------------------------- history
\* The history variables record what happened, read off the step itself
\* (the state before and after), never off the code's own bookkeeping.
\*   label  the operation taken;  wiped: the step replaced the lineup by a
\*   fresh default one (resetGameLineup), which restarts the per-entry history;
\*   args: the arguments of the call, when the action records them.
HistCall(label, wiped, args) ==
    LET before == game.lineup
        after == game'.lineup
        clockStarts == game.timerStatus # "running" /\ game'.timerStatus = "running"
        \* a timer that had run for some time was stopped or restarted
        banked(p) == /\ before[p].playtimerStartTime # Null
                     /\ before[p].playtimerStartTime < now
                     /\ after[p].playtimerStartTime # before[p].playtimerStartTime
        went(p, from, to) == before[p].location = from /\ after[p].location = to
    IN
    /\ steps < MaxOps
    /\ steps' = steps + 1
    /\ op' = label
    /\ UNCHANGED displayVars
    /\ UNCHANGED pendingUpdates
    /\ now' = now
    /\ everStarted' = (everStarted \/ clockStarts)
    /\ firstStarters' = IF ~everStarted /\ clockStarts
                        THEN {p \in DOMAIN before : before[p].location = "field"}
                        ELSE firstStarters
    /\ fieldRunMs' = IF wiped THEN [p \in DOMAIN after |-> 0] ELSE fieldRunMs
    /\ banks' = IF wiped THEN [p \in DOMAIN after |-> 0]
                ELSE [p \in DOMAIN after |-> banks[p] + IF banked(p) THEN 1 ELSE 0]
    /\ benchToField' = IF wiped THEN [p \in DOMAIN after |-> 0]
                       ELSE [p \in DOMAIN after |->
                                benchToField[p] + IF went(p, "bench", "field") THEN 1 ELSE 0]
    /\ fieldToBench' = IF wiped THEN [p \in DOMAIN after |-> 0]
                       ELSE [p \in DOMAIN after |->
                                fieldToBench[p] + IF went(p, "field", "bench") THEN 1 ELSE 0]
    /\ call' = args
    /\ UNCHANGED teamVars

Hist(label, wiped) == HistCall(label, wiped, NoCall)

\* The substitution counters stay within the model's cap.
WithinCaps(g) ==
    \A p \in DOMAIN g.lineup :
        g.lineup[p].subbedOnCount <= MaxSubs /\ g.lineup[p].subbedOffCount <= MaxSubs

\* ------------------------------------------------------------------- Init
Init ==
    /\ game = addGame(PlayerIds)
    /\ players = PlayerIds
    /\ storedPlayers = PlayerIds
    /\ otherGames = <<>>
    /\ isPlanningSubs = FALSE
    /\ gameDisplaySeconds = 0
    /\ playerDisplayTimes = <<>>
    /\ pendingUpdates = <<>>
    /\ plannedSwaps = <<>>
    /\ now = TickMs
    /\ op = "addGame"
    /\ steps = 0
    /\ everStarted = FALSE
    /\ firstStarters = {}
    /\ fieldRunMs = [p \in PlayerIds |-> 0]
    /\ banks = [p \in PlayerIds |-> 0]
    /\ benchToField = [p \in PlayerIds |-> 0]
    /\ fieldToBench = [p \in PlayerIds |-> 0]
    /\ call = NoCall

\* Time passes: Date.now() grows by one tick; entries on field accrue field
\* time while the clock runs.
Tick ==
    /\ now < TickMs * (MaxTicks + 1)
    /\ now' = now + TickMs
    /\ fieldRunMs' = [p \in DOMAIN game.lineup |->
                         fieldRunMs[p] + IF game.lineup[p].location = "field"
                                            /\ game.timerStatus = "running"
                                         THEN TickMs ELSE 0]
    /\ op' = "Tick"
    /\ UNCHANGED displayVars
    /\ UNCHANGED pendingUpdates
    /\ call' = NoCall
    /\ UNCHANGED <<game, isPlanningSubs, plannedSwaps, steps, everStarted, firstStarters,
                   banks, benchToField, fieldToBench>>
    /\ UNCHANGED teamVars

\* ------------------------------------------------- actions: GamePage handlers
\* handleTimerClick: nothing on a finished game; stops a running clock;
\* otherwise starts it (unless the user declines to start a future game
\* that has not run yet).
handleTimerClick ==
    /\ \E confirmed \in BOOLEAN :
        LET isFinished == game.isExplicitlyFinished
            isRunning == game.timerStatus = "running"
            hasNR == game.timerElapsedSeconds = 0 /\ game.timerStartTime = Null
        IN game' = IF isFinished THEN game
                   ELSE IF isRunning THEN stopGameTimer(game, now)
                   ELSE IF ~hasNR \/ confirmed THEN startGameTimer(game, now)
                   ELSE game
    /\ UNCHANGED <<isPlanningSubs, plannedSwaps>>
    /\ Hist("handleTimerClick", FALSE)

\* handleEndGame: the End Game button is rendered while the game is running
\* or paused and not finished.
handleEndGame ==
    /\ ~game.isExplicitlyFinished
    /\ game.timerStatus = "running" \/ game.timerElapsedSeconds > 0
    /\ game' = markGameAsFinished(game, now)
    /\ UNCHANGED <<isPlanningSubs, plannedSwaps>>
    /\ Hist("handleEndGame", FALSE)

\* handleDropInGame: a rendered player icon is dropped on the field (at a
\* coordinate), the bench or the inactive area.
handleDropInGame ==
    /\ \E id \in DOMAIN game.lineup, targetLocation \in Locations, xy \in DropCoords :
        game' = dropInGame(game, isPlanningSubs, dragItem(game.lineup, id),
                           targetLocation, xy[1], xy[2], now)
    /\ WithinCaps(game')
    /\ UNCHANGED <<isPlanningSubs, plannedSwaps>>
    /\ Hist("handleDropInGame", FALSE)

\* handleResetGameLineup: ignored while planning; otherwise, when the user
\* confirms, resetGameLineup(game.id).
handleResetGameLineup ==
    /\ \E confirmed \in BOOLEAN :
        LET resets == ~isPlanningSubs /\ confirmed IN
        /\ game' = IF resets THEN resetGameLineup(game, storedPlayers) ELSE game
        /\ Hist("handleResetGameLineup", resets)
    /\ UNCHANGED <<isPlanningSubs, plannedSwaps>>

\* Faulty variant of handleTogglePlanningMode: the finished game is not
\* turned away.
handleTogglePlanningMode_ignoresFinished ==
    /\ isPlanningSubs' = ~isPlanningSubs /\ plannedSwaps' = <<>>
    /\ game' = game
    /\ Hist("handleTogglePlanningMode", FALSE)

\* handleTogglePlanningMode
handleTogglePlanningMode ==
    /\ IF game.isExplicitlyFinished
       THEN UNCHANGED <<isPlanningSubs, plannedSwaps>>
       ELSE isPlanningSubs' = ~isPlanningSubs /\ plannedSwaps' = <<>>
    /\ game' = game
    /\ Hist("handleTogglePlanningMode", FALSE)

\* handlePlanDrop: in planning mode a bench player not yet planned is dropped
\* on the marker of a field player.
handlePlanDrop ==
    /\ isPlanningSubs
    /\ UNCHANGED <<game, isPlanningSubs>>
    /\ \E dragged \in DOMAIN game.lineup, target \in DOMAIN game.lineup :
        /\ game.lineup[dragged].location = "bench"
        /\ \A i \in 1..Len(plannedSwaps) : plannedSwaps[i].benchPlayerId # dragged
        /\ game.lineup[target].location = "field"
        /\ plannedSwaps' = planDrop(plannedSwaps, dragged, target,
                                    game.lineup[target].position)
        /\ HistCall("handlePlanDrop", FALSE,
                    [draggedPlayerId |-> dragged, targetPlayerId |-> target,
                     removed |-> {plannedSwaps[i].benchPlayerId : i \in 1..Len(plannedSwaps)}
                                  \ {plannedSwaps'[i].benchPlayerId :
                                         i \in 1..Len(plannedSwaps')}])

\* Faulty variant of handleCancelPlan: executes the staged plans before it
\* leaves planning mode.
handleCancelPlan_commits ==
    /\ isPlanningSubs
    /\ isPlanningSubs' = FALSE
    /\ plannedSwaps' = <<>>
    /\ game' = confirmPlan(game, plannedSwaps, now)
    /\ HistCall("handleCancelPlan", FALSE, [discarded |-> Len(plannedSwaps)])

\* handleCancelPlan (the button is rendered in planning mode)
handleCancelPlan ==
    /\ isPlanningSubs
    /\ isPlanningSubs' = FALSE
    /\ plannedSwaps' = <<>>
    /\ game' = game
    /\ HistCall("handleCancelPlan", FALSE, [discarded |-> Len(plannedSwaps)])

\* Faulty variant of handleConfirmPlan: the executed plans stay staged.
handleConfirmPlan_keepsPlans ==
    /\ isPlanningSubs
    /\ game' = confirmPlan(game, plannedSwaps, now)
    /\ WithinCaps(game')
    /\ isPlanningSubs' = FALSE
    /\ plannedSwaps' = plannedSwaps
    /\ Hist("handleConfirmPlan", FALSE)

\* handleConfirmPlan (the button is rendered in planning mode)
handleConfirmPlan ==
    /\ isPlanningSubs
    /\ game' = confirmPlan(game, plannedSwaps, now)
    /\ WithinCaps(game')
    /\ isPlanningSubs' = FALSE
    /\ plannedSwaps' = <<>>
    /\ Hist("handleConfirmPlan", FALSE)

Next ==
    \/ Tick
    \/ handleTimerClick
    \/ handleEndGame
    \/ handleDropInGame
    \/ handleResetGameLineup
    \/ handleTogglePlanningMode
    \/ handlePlanDrop
    \/ handleCancelPlan
    \/ handleConfirmPlan

Spec == Init /\ [][Next]_vars

\* ------------------------------------- actions: the context functions called directly
CallStartGameTimer ==
    /\ steps < MaxCalls
    /\ game' = startGameTimer(game, now)
    /\ UNCHANGED <<isPlanningSubs, plannedSwaps>>
    /\ Hist("startGameTimer", FALSE)

CallStopGameTimer ==
    /\ steps < MaxCalls
    /\ game' = stopGameTimer(game, now)
    /\ UNCHANGED <<isPlanningSubs, plannedSwaps>>
    /\ Hist("stopGameTimer", FALSE)

CallMarkGameAsFinished ==
    /\ steps < MaxCalls
    /\ game' = markGameAsFinished(game, now)
    /\ UNCHANGED <<isPlanningSubs, plannedSwaps>>
    /\ Hist("markGameAsFinished", FALSE)

CallMovePlayerInGame ==
    /\ steps < MaxCalls
    /\ \E playerId \in players, sourceLocation \in Locations, targetLocation \in Locations,
          newPosition \in CallPositions :
        game' = movePlayerInGame(game, playerId, sourceLocation, targetLocation,
                                 newPosition, now)
    /\ WithinCaps(game')
    /\ UNCHANGED <<isPlanningSubs, plannedSwaps>>
    /\ Hist("movePlayerInGame", FALSE)

\* resetGameLineup(gameId); the lineup it returns is kept in `call`
CallResetGameLineup ==
    /\ steps < MaxCalls
    /\ game' = resetGameLineup(game, storedPlayers)
    /\ UNCHANGED <<isPlanningSubs, plannedSwaps>>
    /\ HistCall("resetGameLineup", TRUE,
                [returned |-> resetGameLineupReturn(storedPlayers)])

CoreNext ==
    \/ Tick
    \/ CallStartGameTimer
    \/ CallStopGameTimer
    \/ CallMarkGameAsFinished
    \/ CallMovePlayerInGame
    \/ CallResetGameLineup

CoreSpec == Init /\ [][CoreNext]_vars

\* ------------------------------------- movePlayerInGame with its arguments recorded
\* A direct movePlayerInGame call whose player and locations are kept in `call`.
CallMovePlayerInGameArgs ==
    /\ steps < MaxCalls
    /\ \E playerId \in PlayerIds, sourceLocation \in Locations, targetLocation \in Locations,
          newPosition \in CallPositions :
        /\ game' = movePlayerInGame(game, playerId, sourceLocation, targetLocation,
                                    newPosition, now)
        /\ HistCall("movePlayerInGame", FALSE,
                    [playerId |-> playerId, sourceLocation |-> sourceLocation,
                     targetLocation |-> targetLocation])
    /\ WithinCaps(game')
    /\ UNCHANGED <<isPlanningSubs, plannedSwaps>>

MoveNext ==
    \/ Tick
    \/ CallStartGameTimer
    \/ CallStopGameTimer
    \/ CallMovePlayerInGameArgs

MoveSpec == Init /\ [][MoveNext]_vars

\* ------------------------------------- the planner on a five-player roster
\* A roster of five.  The game starts from a lineup the page reaches with two
\* drops onto the empty field: players 3 and 4 stand on field at two
\* different spots (each substituted on once), players 1, 2 and 5 sit on the
\* bench.
PlanPlayerIds == {1, 2, 3, 4, 5}

PlanInitLineup ==
    LET placed == movePlayerInGame(
                      movePlayerInGame(addGame(PlanPlayerIds), 3, "bench", "field",
                                       <<20, 50>>, TickMs),
                      4, "bench", "field", <<60, 50>>, TickMs)
    IN placed.lineup

PlanInit ==
    /\ game = [addGame(PlanPlayerIds) EXCEPT !.lineup = PlanInitLineup]
    /\ players = PlanPlayerIds
    /\ storedPlayers = PlanPlayerIds
    /\ otherGames = <<>>
    /\ isPlanningSubs = FALSE
    /\ gameDisplaySeconds = 0
    /\ playerDisplayTimes = <<>>
    /\ pendingUpdates = <<>>
    /\ plannedSwaps = <<>>
    /\ now = TickMs
    /\ op = "handleDropInGame"
    /\ steps = 0
    /\ everStarted = FALSE
    /\ firstStarters = {}
    /\ fieldRunMs = [p \in PlanPlayerIds |-> 0]
    /\ banks = [p \in PlanPlayerIds |-> 0]
    /\ benchToField = [p \in PlanPlayerIds |-> IF p \in {3, 4} THEN 1 ELSE 0]
    /\ fieldToBench = [p \in PlanPlayerIds |-> 0]
    /\ call = NoCall

PlanNext ==
    \/ Tick
    \/ handleTimerClick
    \/ handleEndGame
    \/ handleTogglePlanningMode
    \/ handlePlanDrop
    \/ handleCancelPlan
    \/ handleConfirmPlan

PlanSpec == PlanInit /\ [][PlanNext]_vars

\* ------------------------------------- the context functions on a 61-second timeline
\* Date.now() at the instants t = 0, 30 s, 31 s and 61 s of a game.
ScenarioTimes == <<1000, 31000, 32000, 62000>>

\* The calls of the reference run, each with the index of its instant.
ScenarioScript ==
    << [op |-> "startGameTimer", at |-> 1, playerId |-> 0, targetLocation |-> "none"],
       [op |-> "stopGameTimer", at |-> 2, playerId |-> 0, targetLocation |-> "none"],
       [op |-> "movePlayerInGame", at |-> 3, playerId |-> 2, targetLocation |-> "field"],
       [op |-> "startGameTimer", at |-> 3, playerId |-> 0, targetLocation |-> "none"],
       [op |-> "stopGameTimer", at |-> 4, playerId |-> 0, targetLocation |-> "none"] >>

\* History: how many calls of ScenarioScript the behaviour has made so far,
\* when it has made exactly those calls at exactly those instants (-1 once
\* it has departed from the script).
ScenarioStage(label, playerId, targetLocation) ==
    IF /\ call.stage >= 0
       /\ call.stage < Len(ScenarioScript)
       /\ LET e == ScenarioScript[call.stage + 1]
          IN /\ e.op = label
             /\ ScenarioTimes[e.at] = now
             /\ e.playerId = playerId
             /\ e.targetLocation = targetLocation
    THEN [stage |-> call.stage + 1]
    ELSE [stage |-> -1]

\* The game starts from a lineup the page reaches with one drop: player 1
\* stands on field, player 2 sits on the bench; the clock has not run.
ScenarioInit ==
    /\ game = movePlayerInGame(addGame(PlayerIds), 1, "bench", "field", <<20, 50>>,
                               ScenarioTimes[1])
    /\ players = PlayerIds
    /\ storedPlayers = PlayerIds
    /\ otherGames = <<>>
    /\ isPlanningSubs = FALSE
    /\ gameDisplaySeconds = 0
    /\ playerDisplayTimes = <<>>
    /\ pendingUpdates = <<>>
    /\ plannedSwaps = <<>>
    /\ now = ScenarioTimes[1]
    /\ op = "movePlayerInGame"
    /\ steps = 0
    /\ everStarted = FALSE
    /\ firstStarters = {}
    /\ fieldRunMs = [p \in PlayerIds |-> 0]
    /\ banks = [p \in PlayerIds |-> 0]
    /\ benchToField = [p \in PlayerIds |-> IF p = 1 THEN 1 ELSE 0]
    /\ fieldToBench = [p \in PlayerIds |-> 0]
    /\ call = [stage |-> 0]

\* Time passes until the next instant of the timeline.
ScenarioWait ==
    /\ \E i \in 1..(Len(ScenarioTimes) - 1) :
        /\ now = ScenarioTimes[i]
        /\ now' = ScenarioTimes[i + 1]
    /\ fieldRunMs' = [p \in DOMAIN game.lineup |->
                         fieldRunMs[p] + IF game.lineup[p].location = "field"
                                            /\ game.timerStatus = "running"
                                         THEN now' - now ELSE 0]
    /\ op' = "Tick"
    /\ UNCHANGED displayVars
    /\ UNCHANGED pendingUpdates
    /\ UNCHANGED <<game, isPlanningSubs, plannedSwaps, steps, everStarted, firstStarters,
                   banks, benchToField, fieldToBench, call>>
    /\ UNCHANGED teamVars

ScenarioStartGameTimer ==
    /\ game' = startGameTimer(game, now)
    /\ UNCHANGED <<isPlanningSubs, plannedSwaps>>
    /\ HistCall("startGameTimer", FALSE, ScenarioStage("startGameTimer", 0, "none"))

ScenarioStopGameTimer ==
    /\ game' = stopGameTimer(game, now)
    /\ UNCHANGED <<isPlanningSubs, plannedSwaps>>
    /\ HistCall("stopGameTimer", FALSE, ScenarioStage("stopGameTimer", 0, "none"))

\* movePlayerInGame from the entry's location to the field or the bench
ScenarioMovePlayerInGame ==
    /\ \E playerId \in PlayerIds, targetLocation \in {"field", "bench"} :
        /\ game' = movePlayerInGame(game, playerId, game.lineup[playerId].location,
                                    targetLocation,
                                    IF targetLocation = "field" THEN <<60, 50>>
                                    ELSE Undefined, now)
        /\ HistCall("movePlayerInGame", FALSE,
                    ScenarioStage("movePlayerInGame", playerId, targetLocation))
    /\ WithinCaps(game')
    /\ UNCHANGED <<isPlanningSubs, plannedSwaps>>

ScenarioNext ==
    \/ ScenarioWait
    \/ ScenarioStartGameTimer
    \/ ScenarioStopGameTimer
    \/ ScenarioMovePlayerInGame

ScenarioSpec == ScenarioInit /\ [][ScenarioNext]_vars

\* ------------------------------------- roster changes and the games' lineups
\* All ids in use: in the roster, in its saved copy or in a lineup.
UsedIds ==
    players \cup storedPlayers \cup DOMAIN game.lineup
        \cup UNION {DOMAIN otherGames[i].lineup : i \in 1..Len(otherGames)}

\* uuidv4(): an id that was never handed out (the next unused number)
uuidv4 == CHOOSE n \in 1..(MaxPlayers + 1) : \A u \in UsedIds : n > u

\* History of a roster operation: the per-entry history follows the entries
\* of the game's lineup (a new entry starts at 0).
RosterHist(label) ==
    LET kept(h) == [p \in DOMAIN game'.lineup |-> IF p \in DOMAIN h THEN h[p] ELSE 0] IN
    /\ steps < MaxCalls
    /\ steps' = steps + 1
    /\ op' = label
    /\ UNCHANGED displayVars
    /\ UNCHANGED pendingUpdates
    /\ now' = now
    /\ fieldRunMs' = kept(fieldRunMs)
    /\ banks' = kept(banks)
    /\ benchToField' = kept(benchToField)
    /\ fieldToBench' = kept(fieldToBench)
    /\ call' = NoCall
    /\ UNCHANGED <<everStarted, firstStarters, isPlanningSubs, plannedSwaps>>

\* addPlayer(firstName, lastName, number)
CallAddPlayer ==
    /\ uuidv4 <= MaxPlayers
    /\ players' = addPlayerRoster(storedPlayers, uuidv4)
    /\ game' = [game EXCEPT !.lineup = addPlayerToLineup(game.lineup, uuidv4)]
    /\ otherGames' = [i \in 1..Len(otherGames) |->
                         [otherGames[i] EXCEPT
                              !.lineup = addPlayerToLineup(otherGames[i].lineup, uuidv4)]]
    /\ UNCHANGED storedPlayers
    /\ RosterHist("addPlayer")

\* deletePlayer(id), for a player the roster page shows
CallDeletePlayer ==
    /\ \E id \in players :
        /\ players' = players \ {id}
        /\ game' = [game EXCEPT !.lineup = deletePlayerFromLineup(game.lineup, id)]
        /\ otherGames' = [i \in 1..Len(otherGames) |->
                             [otherGames[i] EXCEPT
                                  !.lineup = deletePlayerFromLineup(otherGames[i].lineup, id)]]
    /\ UNCHANGED storedPlayers
    /\ RosterHist("deletePlayer")

\* addGame(opponent, date, time, location)
CallAddGame ==
    /\ Len(otherGames) < MaxAddedGames
    /\ otherGames' = Append(otherGames, addGame(storedPlayers))
    /\ UNCHANGED <<game, players, storedPlayers>>
    /\ RosterHist("addGame")

\* The effect that saves the roster: useEffect(saveToLocalStorage('players',
\* players), [players]) runs once the roster state has changed.
SavePlayers ==
    /\ storedPlayers # players
    /\ storedPlayers' = players
    /\ op' = "saveToLocalStorage"
    /\ UNCHANGED displayVars
    /\ UNCHANGED pendingUpdates
    /\ call' = NoCall
    /\ UNCHANGED <<game, players, otherGames, isPlanningSubs, plannedSwaps, now, steps,
                   everStarted, firstStarters, fieldRunMs, banks, benchToField, fieldToBench>>

RosterNext ==
    \/ CallAddPlayer
    \/ CallDeletePlayer
    \/ CallAddGame
    \/ CallResetGameLineup
    \/ CallMovePlayerInGame
    \/ SavePlayers

RosterSpec == Init /\ [][RosterNext]_vars

\* ------------------------------------- handleDropInGame with its arguments recorded
\* handleDropInGame with the dropped player, the target and the drop
\* coordinate kept in `call`.
handleDropInGameArgs ==
    /\ steps < MaxCalls
    /\ \E id \in DOMAIN game.lineup, targetLocation \in Locations, xy \in DropCoords :
        /\ game' = dropInGame(game, isPlanningSubs, dragItem(game.lineup, id),
                              targetLocation, xy[1], xy[2], now)
        /\ UNCHANGED <<isPlanningSubs, plannedSwaps>>
        /\ HistCall("handleDropInGame", FALSE,
                    [id |-> id, sourceLocation |-> game.lineup[id].location,
                     targetLocation |-> targetLocation,
                     xPercent |-> xy[1], yPercent |-> xy[2]])
    /\ WithinCaps(game')

DropNext ==
    \/ Tick
    \/ handleTimerClick
    \/ handleDropInGameArgs

DropSpec == Init /\ [][DropNext]_vars

\* ------------------------------------- the games array with a game that has no lineup
\* Player ids a caller may pass; 3 is the id of no player.
CallPlayerIds == {1, 2, 3}

\* Scores a call of updateGameScore sets.
Scores == {0, 1}

\* The games array: `game` followed by the other games.
gamesArray == <<game>> \o otherGames

\* The games array holds `game` and a game loaded without a lineup.
GamesInit ==
    /\ game = addGame(PlayerIds)
    /\ players = PlayerIds
    /\ storedPlayers = PlayerIds
    /\ otherGames = <<loadedGameWithoutLineup>>
    /\ isPlanningSubs = FALSE
    /\ gameDisplaySeconds = 0
    /\ playerDisplayTimes = <<>>
    /\ pendingUpdates = <<>>
    /\ plannedSwaps = <<>>
    /\ now = TickMs
    /\ op = "loadFromLocalStorage"
    /\ steps = 0
    /\ everStarted = FALSE
    /\ firstStarters = {}
    /\ fieldRunMs = [p \in PlayerIds |-> 0]
    /\ banks = [p \in PlayerIds |-> 0]
    /\ benchToField = [p \in PlayerIds |-> 0]
    /\ fieldToBench = [p \in PlayerIds |-> 0]
    /\ call = NoCall

\* History of a call that may change any game of the array: HistCall with
\* the other games left free.
HistGames(label, args) ==
    LET before == game.lineup
        after == game'.lineup
        clockStarts == game.timerStatus # "running" /\ game'.timerStatus = "running"
        banked(p) == /\ before[p].playtimerStartTime # Null
                     /\ before[p].playtimerStartTime < now
                     /\ after[p].playtimerStartTime # before[p].playtimerStartTime
        went(p, from, to) == before[p].location = from /\ after[p].location = to
    IN
    /\ steps < MaxCalls
    /\ steps' = steps + 1
    /\ op' = label
    /\ UNCHANGED displayVars
    /\ UNCHANGED pendingUpdates
    /\ now' = now
    /\ everStarted' = (everStarted \/ clockStarts)
    /\ firstStarters' = IF ~everStarted /\ clockStarts
                        THEN {p \in DOMAIN before : before[p].location = "field"}
                        ELSE firstStarters
    /\ fieldRunMs' = fieldRunMs
    /\ banks' = [p \in DOMAIN after |-> banks[p] + IF banked(p) THEN 1 ELSE 0]
    /\ benchToField' = [p \in DOMAIN after |->
                            benchToField[p] + IF went(p, "bench", "field") THEN 1 ELSE 0]
    /\ fieldToBench' = [p \in DOMAIN after |->
                            fieldToBench[p] + IF went(p, "field", "bench") THEN 1 ELSE 0]
    /\ call' = args
    /\ UNCHANGED <<players, storedPlayers, isPlanningSubs, plannedSwaps>>

\* movePlayerInGame(gameId, playerId, ...) for any game id and player id;
\* the ids are kept in `call`.
CallMovePlayerInGameOf ==
    /\ \E gameId \in 1..(Len(gamesArray) + 1), playerId \in CallPlayerIds,
          targetLocation \in Locations :
        LET sourceLocation == IF playerId \in DOMAIN game.lineup
                              THEN game.lineup[playerId].location
                              ELSE "bench"
            updated == movePlayerInGameUpdater(gamesArray, gameId, playerId,
                           sourceLocation, targetLocation,
                           IF targetLocation = "field" THEN <<20, 50>> ELSE Undefined, now)
        IN /\ game' = Head(updated)
           /\ otherGames' = Tail(updated)
           /\ HistGames("movePlayerInGame", [gameId |-> gameId, playerId |-> playerId])
    /\ WithinCaps(game')

\* updateGameScore(gameId, homeScore, awayScore) for `game`
CallUpdateGameScore ==
    /\ \E homeScore \in Scores, awayScore \in Scores :
        game' = updateGameScore(game, homeScore, awayScore)
    /\ otherGames' = otherGames
    /\ HistGames("updateGameScore", NoCall)

GamesNext ==
    \/ Tick
    \/ CallStartGameTimer
    \/ CallUpdateGameScore
    \/ CallMovePlayerInGameOf

GamesSpec == GamesInit /\ [][GamesNext]_vars

\* ------------------------------------------ handlePlanDrop called for any bench player
\* handlePlanDrop(draggedPlayerId, targetPlayerId, targetPosition) for any
\* bench player, staged before or not; `call` keeps the arguments, the field
\* player the dragged player was staged for before (0 if none) and the bench
\* players whose plans were removed.
CallHandlePlanDrop ==
    /\ isPlanningSubs
    /\ UNCHANGED <<game, isPlanningSubs>>
    /\ \E dragged \in DOMAIN game.lineup, target \in DOMAIN game.lineup :
        /\ game.lineup[dragged].location = "bench"
        /\ game.lineup[target].location = "field"
        /\ plannedSwaps' = planDrop(plannedSwaps, dragged, target,
                                    game.lineup[target].position)
        /\ LET own == {i \in 1..Len(plannedSwaps) :
                           plannedSwaps[i].benchPlayerId = dragged}
           IN HistCall("handlePlanDrop", FALSE,
                  [draggedPlayerId |-> dragged, targetPlayerId |-> target,
                   priorTarget |-> IF own = {} THEN 0
                                   ELSE plannedSwaps[CHOOSE i \in own : TRUE]
                                            .targetFieldPlayerId,
                   removed |-> {plannedSwaps[i].benchPlayerId : i \in 1..Len(plannedSwaps)}
                                \ {plannedSwaps'[i].benchPlayerId :
                                       i \in 1..Len(plannedSwaps')}])

StageNext ==
    \/ Tick
    \/ handleTogglePlanningMode
    \/ CallHandlePlanDrop
    \/ handleCancelPlan

StageSpec == PlanInit /\ [][StageNext]_vars

\* --------------------------------------------------- GamePage: display timers
\* Faulty variant of gameDisplay: the running interval is left out.
gameDisplay_frozen(g, t) ==
    g.timerElapsedSeconds * 1000

\* The game clock shown (ms): timerElapsedSeconds + (Date.now() - timerStartTime) / 1000
\* while the game runs with a start time, timerElapsedSeconds otherwise.
gameDisplay(g, t) ==
    IF g.timerStatus = "running" /\ g.timerStartTime # Null
    THEN g.timerElapsedSeconds * 1000 + (t - g.timerStartTime)
    ELSE g.timerElapsedSeconds * 1000

\* The playtime shown for a lineup entry (ms): playtimeSeconds plus the
\* running interval for a field entry with a timer while the game runs.
playerDisplay(playerState, isRunning, t) ==
    IF playerState.location = "field" /\ isRunning /\ playerState.playtimerStartTime # Null
    THEN playerState.playtimeSeconds * 1000 + (t - playerState.playtimerStartTime)
    ELSE playerState.playtimeSeconds * 1000

\* Map.set(key, value) on a copy of the map
mapSet(prev, key, value) ==
    [k \in DOMAIN prev \cup {key} |-> IF k = key THEN value ELSE prev[k]]

\* A step of the display: only `op` and `call` of the history change.
DisplayStep(label) ==
    /\ op' = label
    /\ call' = NoCall
    /\ UNCHANGED <<now, steps, everStarted, firstStarters, fieldRunMs, banks,
                   benchToField, fieldToBench>>
    /\ UNCHANGED <<isPlanningSubs, plannedSwaps, pendingUpdates>>
    /\ UNCHANGED teamVars

\* Main Game Timer Display Effect: the effect body, run after a render in
\* which the clock fields changed.
gameTimerDisplayEffect ==
    /\ gameDisplaySeconds' = gameDisplay(game, now)
    /\ UNCHANGED <<game, playerDisplayTimes>>
    /\ DisplayStep("gameTimerDisplayEffect")

\* Faulty variant of updateDisplay: the seconds shown are banked into the
\* game's elapsed seconds and the clock's start time is moved to now.
updateDisplay_banks ==
    /\ game.timerStatus = "running" /\ game.timerStartTime # Null
    /\ gameDisplaySeconds' = game.timerElapsedSeconds * 1000 + (now - game.timerStartTime)
    /\ game' = [game EXCEPT !.timerElapsedSeconds = (gameDisplaySeconds' + 500) \div 1000,
                            !.timerStartTime = now]
    /\ UNCHANGED playerDisplayTimes
    /\ DisplayStep("updateDisplay")

\* updateDisplay, the callback of the 1 s interval the effect sets while the
\* game runs with a start time
updateDisplay ==
    /\ game.timerStatus = "running" /\ game.timerStartTime # Null
    /\ gameDisplaySeconds' = game.timerElapsedSeconds * 1000 + (now - game.timerStartTime)
    /\ UNCHANGED <<game, playerDisplayTimes>>
    /\ DisplayStep("updateDisplay")

\* Player Timer Management Effect: the effect body
playerTimerManagementEffect ==
    /\ playerDisplayTimes' =
           [p \in DOMAIN game.lineup |->
               playerDisplay(game.lineup[p], game.timerStatus = "running", now)]
    /\ UNCHANGED <<game, gameDisplaySeconds>>
    /\ DisplayStep("playerTimerManagementEffect")

\* The callback of the 1 s interval the effect sets for a field entry with a
\* timer while the game runs
playerTimerInterval ==
    /\ \E id \in DOMAIN game.lineup :
        LET latestPlayerState == game.lineup[id]
            latestIsRunning == game.timerStatus = "running"
        IN /\ latestPlayerState.location = "field"
           /\ latestIsRunning
           /\ latestPlayerState.playtimerStartTime # Null
           /\ playerDisplayTimes' =
                  mapSet(playerDisplayTimes, id,
                         IF latestIsRunning /\ latestPlayerState.location = "field"
                            /\ latestPlayerState.playtimerStartTime # Null
                         THEN latestPlayerState.playtimeSeconds * 1000
                              + (now - latestPlayerState.playtimerStartTime)
                         ELSE latestPlayerState.playtimeSeconds * 1000)
    /\ UNCHANGED <<game, gameDisplaySeconds>>
    /\ DisplayStep("playerTimerInterval")

DisplayNext ==
    \/ Tick
    \/ handleTimerClick
    \/ handleEndGame
    \/ gameTimerDisplayEffect
    \/ updateDisplay
    \/ playerTimerManagementEffect
    \/ playerTimerInterval

DisplaySpec == PlanInit /\ [][DisplayNext]_vars

\* ------------------------------------- handleConfirmPlan with React's update queue
\* The updates handleConfirmPlan queues: per plan, in Map order, the two
\* setGamesState updaters of movePlayerInGame, then setIsPlanningSubs(false)
\* and setPlannedSwaps(new Map()).
RECURSIVE planUpdates(_, _)
planUpdates(swaps, t) ==
    IF swaps = <<>> THEN <<>>
    ELSE LET e == Head(swaps) IN
         <<[set |-> "games", playerId |-> e.targetFieldPlayerId, sourceLocation |-> "field",
            targetLocation |-> "bench", newPosition |-> Undefined, t |-> t],
           [set |-> "games", playerId |-> e.benchPlayerId, sourceLocation |-> "bench",
            targetLocation |-> "field", newPosition |-> e.targetPosition, t |-> t]>>
         \o planUpdates(Tail(swaps), t)

\* The game after the queued setGamesState updaters ran in queue order.
RECURSIVE applyQueued(_, _)
applyQueued(g, queue) ==
    IF queue = <<>> THEN g
    ELSE LET u == Head(queue) IN
         applyQueued(IF u.set = "games"
                     THEN movePlayerInGame(g, u.playerId, u.sourceLocation,
                                           u.targetLocation, u.newPosition, u.t)
                     ELSE g,
                     Tail(queue))

\* The value a queue leaves in a state hook other than games.
queuedValue(queue, hook, current) ==
    LET sets == {i \in 1..Len(queue) : queue[i].set = hook}
    IN IF sets = {} THEN current
       ELSE queue[CHOOSE i \in sets : \A j \in sets : j <= i].value

\* History of a step of the update queue.
QueueStep(label, args, counted) ==
    LET before == game.lineup
        after == game'.lineup
        banked(p) == /\ before[p].playtimerStartTime # Null
                     /\ before[p].playtimerStartTime < now
                     /\ after[p].playtimerStartTime # before[p].playtimerStartTime
        went(p, from, to) == before[p].location = from /\ after[p].location = to
    IN
    /\ op' = label
    /\ call' = args
    /\ steps' = steps + IF counted THEN 1 ELSE 0
    /\ banks' = [p \in DOMAIN after |-> banks[p] + IF banked(p) THEN 1 ELSE 0]
    /\ benchToField' = [p \in DOMAIN after |->
                            benchToField[p] + IF went(p, "bench", "field") THEN 1 ELSE 0]
    /\ fieldToBench' = [p \in DOMAIN after |->
                            fieldToBench[p] + IF went(p, "field", "bench") THEN 1 ELSE 0]
    /\ UNCHANGED <<now, everStarted, firstStarters, fieldRunMs>>
    /\ UNCHANGED displayVars
    /\ UNCHANGED teamVars

\* handleConfirmPlan as an event handler: its state updates are queued, the
\* state the components read is not changed yet.  `call` keeps the plans.
handleConfirmPlanQueued ==
    /\ isPlanningSubs
    /\ pendingUpdates = <<>>
    /\ steps < MaxOps
    /\ pendingUpdates' = planUpdates(plannedSwaps, now)
                            \o <<[set |-> "isPlanningSubs", value |-> FALSE],
                                 [set |-> "plannedSwaps", value |-> <<>>]>>
    /\ WithinCaps(applyQueued(game, pendingUpdates'))
    /\ UNCHANGED <<game, isPlanningSubs, plannedSwaps>>
    /\ QueueStep("handleConfirmPlan", [committed |-> plannedSwaps], TRUE)

\* Faulty variant of flushUpdates: a render after every single update.
flushUpdates_oneAtATime ==
    /\ pendingUpdates # <<>>
    /\ game' = applyQueued(game, <<Head(pendingUpdates)>>)
    /\ isPlanningSubs' = queuedValue(<<Head(pendingUpdates)>>, "isPlanningSubs",
                                     isPlanningSubs)
    /\ plannedSwaps' = queuedValue(<<Head(pendingUpdates)>>, "plannedSwaps", plannedSwaps)
    /\ pendingUpdates' = Tail(pendingUpdates)
    /\ QueueStep("flushUpdates", call, FALSE)

\* React at the end of the event handler: the queued updates are applied
\* in order in one batch, then the components render.
flushUpdates ==
    /\ pendingUpdates # <<>>
    /\ game' = applyQueued(game, pendingUpdates)
    /\ isPlanningSubs' = queuedValue(pendingUpdates, "isPlanningSubs", isPlanningSubs)
    /\ plannedSwaps' = queuedValue(pendingUpdates, "plannedSwaps", plannedSwaps)
    /\ pendingUpdates' = <<>>
    /\ QueueStep("flushUpdates", call, FALSE)

\* No other handler or interval callback runs between an event handler and
\* the render that follows it.
BatchNext ==
    \/ handleConfirmPlanQueued
    \/ flushUpdates
    \/ pendingUpdates = <<>> /\ Tick
    \/ pendingUpdates = <<>> /\ handleTimerClick
    \/ pendingUpdates = <<>> /\ handleTogglePlanningMode
    \/ pendingUpdates = <<>> /\ handlePlanDrop

BatchSpec == PlanInit /\ [][BatchNext]_vars

\* ----------------------------- the movePlayerInGame calls a drop or a commit issues
\* Faulty variant of dropUpdates: in a swap the replaced player's move is
\* given the replaced player's target as its source.
dropUpdates_wrongSource(g, planning, item, targetLocation, xPercent, yPercent, t) ==
    LET droppedPlayerId == item.id
        sourceLocation == item.location
        move(id, from, to, pos) ==
            [set |-> "games", playerId |-> id, sourceLocation |-> from,
             targetLocation |-> to, newPosition |-> pos, t |-> t]
    IN
    IF planning \/ droppedPlayerId \notin DOMAIN g.lineup THEN <<>>
    ELSE IF targetLocation = "field"
    THEN LET target == targetPlayerStructure(g.lineup, droppedPlayerId, xPercent, yPercent) IN
         IF target # 0
         THEN <<move(target, sourceLocation, sourceLocation,
                     IF sourceLocation = "field"
                     THEN g.lineup[droppedPlayerId].position ELSE Undefined),
                move(droppedPlayerId, sourceLocation, "field", g.lineup[target].position)>>
         ELSE <<move(droppedPlayerId, sourceLocation, "field", <<xPercent, yPercent>>)>>
    ELSE IF sourceLocation # targetLocation
    THEN <<move(droppedPlayerId, sourceLocation, targetLocation, Undefined)>>
    ELSE <<>>

\* handleDropInGame(item, targetLocation, xPercent, yPercent): the
\* movePlayerInGame calls the handler issues, in order
dropUpdates(g, planning, item, targetLocation, xPercent, yPercent, t) ==
    LET droppedPlayerId == item.id
        sourceLocation == item.location
        move(id, from, to, pos) ==
            [set |-> "games", playerId |-> id, sourceLocation |-> from,
             targetLocation |-> to, newPosition |-> pos, t |-> t]
    IN
    IF planning \/ droppedPlayerId \notin DOMAIN g.lineup THEN <<>>
    ELSE IF targetLocation = "field"
    THEN LET target == targetPlayerStructure(g.lineup, droppedPlayerId, xPercent, yPercent) IN
         IF target # 0
         THEN <<move(target, "field", sourceLocation,
                     IF sourceLocation = "field"
                     THEN g.lineup[droppedPlayerId].position ELSE Undefined),
                move(droppedPlayerId, sourceLocation, "field", g.lineup[target].position)>>
         ELSE <<move(droppedPlayerId, sourceLocation, "field", <<xPercent, yPercent>>)>>
    ELSE IF sourceLocation # targetLocation
    THEN <<move(droppedPlayerId, sourceLocation, targetLocation, Undefined)>>
    ELSE <<>>

\* handleDropInGame as an event handler: the issued calls are queued.  Drops
\* are taken as the first two operations only.
handleDropInGameQueued ==
    /\ pendingUpdates = <<>>
    /\ steps < 2
    /\ \E id \in DOMAIN game.lineup, targetLocation \in Locations, xy \in DropCoords :
        /\ pendingUpdates' = dropUpdates(game, isPlanningSubs, dragItem(game.lineup, id),
                                         targetLocation, xy[1], xy[2], now)
        /\ pendingUpdates' # <<>>
        /\ WithinCaps(applyQueued(game, pendingUpdates'))
        /\ UNCHANGED <<game, isPlanningSubs, plannedSwaps>>
        /\ QueueStep("handleDropInGame",
                     [id |-> id, sourceLocation |-> game.lineup[id].location,
                      targetLocation |-> targetLocation,
                      xPercent |-> xy[1], yPercent |-> xy[2]], TRUE)

IssueNext ==
    \/ handleDropInGameQueued
    \/ handleConfirmPlanQueued
    \/ flushUpdates
    \/ pendingUpdates = <<>> /\ Tick
    \/ pendingUpdates = <<>> /\ handleTimerClick
    \/ pendingUpdates = <<>> /\ handleTogglePlanningMode
    \/ pendingUpdates = <<>> /\ handlePlanDrop

IssueSpec == PlanInit /\ [][IssueNext]_vars

\* ================================================================ claims
Entries == DOMAIN game.lineup
Entry(p) == game.lineup[p]
Abs(n) == IF n < 0 THEN -n ELSE n

\* The whole second nearest to ms milliseconds (a half rounds up).
NearestSecond(ms) ==
    CHOOSE n \in 0..(ms \div 1000 + 1) : 1000 * n - 500 <= ms /\ ms < 1000 * n + 500

\* The step is the named operation.
Did(label) == op' = label

\* ---- C1
\* C1 as stated: whenever an entry's timer is not running, its
\* playtimeSeconds equals the time it spent on field while the clock was
\* running (since the lineup was created or reset).
C1_ConservationExact ==
    \A p \in Entries :
        Entry(p).playtimerStartTime = Null => 1000 * Entry(p).playtimeSeconds = fieldRunMs[p]

\* C1 amended: whenever an entry's timer is not running, its playtimeSeconds
\* differs from the time it spent on field while the clock was running by at
\* most half a second for each time its running timer was banked.
C1_ConservationRounded ==
    \A p \in Entries :
        Entry(p).playtimerStartTime = Null
            => Abs(1000 * Entry(p).playtimeSeconds - fieldRunMs[p]) <= 500 * banks[p]

\* An entry whose timer was banked after 500 ms on field and shows one second.
C1_Witness ==
    \E p \in Entries :
        /\ Entry(p).playtimerStartTime = Null
        /\ banks[p] = 1
        /\ fieldRunMs[p] = 2 * TickMs
        /\ Entry(p).playtimeSeconds = 1

\* ---- C2
\* C2 as stated: no step decreases any entry's playtimeSeconds.
C2_PlaytimeNeverDecreases ==
    [][\A p \in Entries : game'.lineup[p].playtimeSeconds >= Entry(p).playtimeSeconds]_vars

\* C2 amended: no step other than a lineup reset decreases any entry's
\* playtimeSeconds (a reset sets every entry's playtimeSeconds to 0).
C2_PlaytimeDecreasesOnlyOnReset ==
    [][\/ /\ Did("handleResetGameLineup")
          /\ \A p \in Entries : game'.lineup[p].playtimeSeconds \in {0, Entry(p).playtimeSeconds}
       \/ \A p \in Entries : game'.lineup[p].playtimeSeconds >= Entry(p).playtimeSeconds]_vars

\* The clock was just stopped and an entry's playtimeSeconds grew to 1.
C2_Witness ==
    /\ op = "handleTimerClick"
    /\ game.timerStatus = "stopped"
    /\ \E p \in Entries : Entry(p).playtimeSeconds = 1 /\ banks[p] = 1

\* ---- C3
\* C3: in every reachable state an entry has a position exactly when it is
\* on field.
C3_PositionIffField ==
    \A p \in Entries : (Entry(p).position # Undefined) <=> (Entry(p).location = "field")

\* A planned swap was committed: one entry came onto the field with a
\* position and the entry it replaced sits on the bench.
C3_Witness ==
    /\ op = "handleConfirmPlan"
    /\ \E p, q \in Entries :
        /\ Entry(p).location = "field" /\ Entry(p).position # Undefined
        /\ Entry(p).subbedOnCount = 1
        /\ Entry(q).location = "bench" /\ Entry(q).subbedOffCount = 1

\* ---- C4
\* C4: in every reachable state each entry's subbedOnCount is the number of
\* bench->field changes of its location and its subbedOffCount the number of
\* field->bench changes, counted since the lineup was created or reset;
\* changes into or out of inactive and same-location moves count for neither.
C4_CounterCorrectness ==
    \A p \in Entries :
        /\ Entry(p).subbedOnCount = benchToField[p]
        /\ Entry(p).subbedOffCount = fieldToBench[p]

\* One entry went bench -> field -> inactive (one substitution on, none off)
\* and another went bench -> field -> bench (one on, one off).
C4_Witness ==
    \E p, q \in Entries :
        /\ Entry(p).location = "inactive"
        /\ Entry(p).subbedOnCount = 1 /\ Entry(p).subbedOffCount = 0
        /\ Entry(q).location = "bench"
        /\ Entry(q).subbedOnCount = 1 /\ Entry(q).subbedOffCount = 1

\* ---- C5
\* C5: in every reachable state an entry's timer start is set only if the
\* entry is on field and the game clock is running.
C5_TimerOnlyOnFieldWhileRunning ==
    \A p \in Entries :
        Entry(p).playtimerStartTime # Null
            => Entry(p).location = "field" /\ game.timerStatus = "running"

\* The clock runs, one entry is timing on field and another was taken from
\* the field to inactive and has its time banked.
C5_Witness ==
    /\ game.timerStatus = "running"
    /\ \E p, q \in Entries :
        /\ Entry(p).playtimerStartTime # Null
        /\ Entry(q).location = "inactive" /\ Entry(q).playtimerStartTime = Null
        /\ fieldRunMs[q] > 0

\* ---- C6
\* C6: in every reachable state an entry with isStarter set was on field when
\* the clock first went from never started to running.
C6_StarterOnlyIfOnFieldAtFirstStart ==
    \A p \in Entries : Entry(p).isStarter => everStarted /\ p \in firstStarters

\* ---- C7
\* C7: a startGameTimer call on a game whose banked elapsed seconds are
\* greater than 0 leaves every entry's isStarter flag unchanged.
C7_StarterIdempotence ==
    [][(Did("startGameTimer") /\ game.timerElapsedSeconds > 0)
         => \A p \in Entries : game'.lineup[p].isStarter = Entry(p).isStarter]_vars

\* The clock was restarted with one second banked while an entry that is no
\* starter stands on field.
C7_Witness ==
    /\ op = "startGameTimer"
    /\ game.timerStatus = "running"
    /\ game.timerElapsedSeconds > 0
    /\ game.timerStartTime = now
    /\ \E p \in Entries : Entry(p).location = "field" /\ ~Entry(p).isStarter

C9_StartIsNoOpWhenRunningOrFinished ==
    [][(Did("startGameTimer")
          /\ (game.timerStatus = "running" \/ game.isExplicitlyFinished))
         => game' = game]_vars

\* ---- C10
\* C10: a stopGameTimer call on a running clock sets the status to stopped,
\* adds (now - timerStartTime) rounded to whole seconds to the banked elapsed
\* seconds, clears the start timestamp and leaves isExplicitlyFinished as it
\* was (false); on a stopped clock it leaves the whole game unchanged.
C10_StopBanksOrIsNoOp ==
    [][Did("stopGameTimer")
         => IF game.timerStatus = "running"
            THEN /\ game'.timerStatus = "stopped"
                 /\ game'.timerElapsedSeconds =
                        game.timerElapsedSeconds + NearestSecond(now - game.timerStartTime)
                 /\ game'.timerStartTime = Null
                 /\ ~game'.isExplicitlyFinished
            ELSE game' = game]_vars

\* A running clock was stopped after 500 ms: one second is banked and the
\* game is not finished.
C10_Witness ==
    /\ op = "stopGameTimer"
    /\ game.timerStatus = "stopped"
    /\ game.timerElapsedSeconds = 1
    /\ game.timerStartTime = Null
    /\ ~game.isExplicitlyFinished
    /\ steps = 2

\* ---- C11
\* C11: a markGameAsFinished call on a running clock banks the game's and
\* the timing entries' elapsed time rounded to whole seconds and clears the
\* start times, exactly as a stop does; in every case it leaves the clock
\* stopped and isExplicitlyFinished true; and no step ever takes
\* isExplicitlyFinished from true back to false.
C11_FinishBanksAndIsPermanent ==
    [][/\ Did("markGameAsFinished")
            => /\ game'.isExplicitlyFinished
               /\ game'.timerStatus = "stopped"
               /\ game'.timerStartTime = Null
               /\ IF game.timerStatus = "running"
                  THEN /\ game'.timerElapsedSeconds =
                              game.timerElapsedSeconds
                                  + NearestSecond(now - game.timerStartTime)
                       /\ \A p \in Entries :
                            /\ game'.lineup[p].playtimerStartTime = Null
                            /\ game'.lineup[p].playtimeSeconds =
                                   IF Entry(p).playtimerStartTime # Null
                                   THEN Entry(p).playtimeSeconds
                                            + NearestSecond(now - Entry(p).playtimerStartTime)
                                   ELSE Entry(p).playtimeSeconds
                  ELSE /\ game'.timerElapsedSeconds = game.timerElapsedSeconds
                       /\ game'.lineup = game.lineup
       /\ game.isExplicitlyFinished => game'.isExplicitlyFinished]_vars

\* The game was finished while the clock ran (one second banked for the game
\* and for an entry on field), and a later startGameTimer call left it
\* finished and stopped.
C11_Witness ==
    /\ op = "startGameTimer"
    /\ game.isExplicitlyFinished
    /\ game.timerStatus = "stopped"
    /\ game.timerElapsedSeconds = 1
    /\ \E p \in Entries : Entry(p).location = "field" /\ Entry(p).playtimeSeconds = 1

\* ---- C12
\* C12: once the game is finished, a step changes the lineup (any entry's
\* location, position, playtime, timer start, starter flag or counters) only
\* if the user confirmed it; the only handler that asks the user before it
\* touches the lineup is handleResetGameLineup.
C12_FinishedLineupChangesOnlyWhenConfirmed ==
    [][(game.isExplicitlyFinished /\ ~Did("handleResetGameLineup"))
         => game'.lineup = game.lineup]_vars


\* ---- C13
\* C13: a movePlayerInGame call whose sourceLocation is the entry's location
\* adds the whole-second-rounded (now - playtimerStartTime) to the entry's
\* playtimeSeconds if the source is field or inactive and the start time is
\* set (and leaves playtimeSeconds alone otherwise); afterwards the entry's
\* start time is now if the target is field and the clock is running, and
\* null in every other case.
C13_MoveTimerEffect ==
    [][(Did("movePlayerInGame") /\ call' # NoCall
          /\ call'.sourceLocation = Entry(call'.playerId).location)
         => LET before == Entry(call'.playerId)
                after == game'.lineup[call'.playerId]
            IN /\ after.playtimeSeconds =
                      IF before.location \in {"field", "inactive"}
                         /\ before.playtimerStartTime # Null
                      THEN before.playtimeSeconds
                               + NearestSecond(now - before.playtimerStartTime)
                      ELSE before.playtimeSeconds
               /\ after.playtimerStartTime =
                      IF call'.targetLocation = "field" /\ game.timerStatus = "running"
                      THEN now ELSE Null]_vars

\* An entry that had been timing on field for 500 ms was moved to the bench
\* while the clock ran: one second is banked and its timer is cleared.
C13_Witness ==
    /\ op = "movePlayerInGame"
    /\ call # NoCall
    /\ call.sourceLocation = "field" /\ call.targetLocation = "bench"
    /\ game.timerStatus = "running"
    /\ Entry(call.playerId).location = "bench"
    /\ Entry(call.playerId).playtimeSeconds = 1
    /\ Entry(call.playerId).playtimerStartTime = Null
    /\ fieldRunMs[call.playerId] = 2 * TickMs

\* ---- C14
\* C14: when handleConfirmPlan commits a plan set of exactly two plans, a -> x
\* and b -> y with a, b on bench, x, y on field and x # y, then afterwards a
\* is on field at x's former position, b on field at y's former position, x
\* and y are on bench without a position, subbedOnCount went up by one for a
\* and b only, subbedOffCount went up by one for x and y only, and every
\* entry other than these four is unchanged.
C14_PlannerCommit ==
    [][(Did("handleConfirmPlan") /\ Len(plannedSwaps) = 2)
         => LET a == plannedSwaps[1].benchPlayerId
                x == plannedSwaps[1].targetFieldPlayerId
                b == plannedSwaps[2].benchPlayerId
                y == plannedSwaps[2].targetFieldPlayerId
                after == game'.lineup
            IN (/\ Entry(a).location = "bench" /\ Entry(b).location = "bench"
                /\ Entry(x).location = "field" /\ Entry(y).location = "field"
                /\ x # y)
               => /\ after[a].location = "field" /\ after[a].position = Entry(x).position
                  /\ after[b].location = "field" /\ after[b].position = Entry(y).position
                  /\ after[x].location = "bench" /\ after[x].position = Undefined
                  /\ after[y].location = "bench" /\ after[y].position = Undefined
                  /\ \A p \in {a, b} :
                       /\ after[p].subbedOnCount = Entry(p).subbedOnCount + 1
                       /\ after[p].subbedOffCount = Entry(p).subbedOffCount
                  /\ \A p \in {x, y} :
                       /\ after[p].subbedOffCount = Entry(p).subbedOffCount + 1
                       /\ after[p].subbedOnCount = Entry(p).subbedOnCount
                  /\ \A p \in Entries \ {a, b, x, y} : after[p] = Entry(p)]_vars

\* The plan set {1 -> 3, 2 -> 4} was staged and committed: 1 and 2 stand on
\* the spots of 3 and 4, who sit on the bench, and 5 never left the bench.
C14_Witness ==
    /\ op = "handleConfirmPlan"
    /\ steps = 4
    /\ Entries = PlanPlayerIds
    /\ Entry(1).location = "field" /\ Entry(1).position = <<20, 50>>
    /\ Entry(2).location = "field" /\ Entry(2).position = <<60, 50>>
    /\ Entry(1).subbedOnCount = 1 /\ Entry(2).subbedOnCount = 1
    /\ Entry(3).location = "bench" /\ Entry(3).subbedOffCount = 1
    /\ Entry(4).location = "bench" /\ Entry(4).subbedOffCount = 1
    /\ Entry(5).location = "bench" /\ Entry(5).subbedOnCount = 0

\* ---- C15
\* C15: handleCancelPlan leaves the whole game (every lineup entry and the
\* clock fields) unchanged, empties plannedSwaps and leaves planning mode,
\* whatever plans were staged.
C15_CancelLeavesGameUnchanged ==
    [][Did("handleCancelPlan")
         => /\ game' = game
            /\ plannedSwaps' = <<>>
            /\ ~isPlanningSubs']_vars

\* Two staged plans were cancelled while the clock ran: the bench players
\* still sit on the bench with no substitution counted, the field players
\* keep timing on field.
C15_Witness ==
    /\ op = "handleCancelPlan"
    /\ call.discarded = 2
    /\ plannedSwaps = <<>> /\ ~isPlanningSubs
    /\ game.timerStatus = "running"
    /\ \A p \in {1, 2, 5} : Entry(p).location = "bench" /\ Entry(p).subbedOnCount = 0
    /\ \A p \in {3, 4} : Entry(p).location = "field" /\ Entry(p).playtimerStartTime # Null

\* ---- C16
\* C16: in every state no two staged plans have the same target field
\* player; and when handlePlanDrop stages b -> x while a plan a -> x with
\* a # b is staged, the plan of a is gone afterwards and b -> x is the only
\* plan that targets x.
C16_OnePlanPerTarget ==
    [][/\ \A i, j \in 1..Len(plannedSwaps') :
            i # j => plannedSwaps'[i].targetFieldPlayerId
                        # plannedSwaps'[j].targetFieldPlayerId
       /\ Did("handlePlanDrop")
            => LET b == call'.draggedPlayerId
                   x == call'.targetPlayerId
               IN \A i \in 1..Len(plannedSwaps) :
                      (plannedSwaps[i].targetFieldPlayerId = x
                         /\ plannedSwaps[i].benchPlayerId # b)
                      => /\ \A k \in 1..Len(plannedSwaps') :
                               plannedSwaps'[k].benchPlayerId
                                   # plannedSwaps[i].benchPlayerId
                         /\ \A k \in 1..Len(plannedSwaps') :
                               plannedSwaps'[k].targetFieldPlayerId = x
                                   => plannedSwaps'[k].benchPlayerId = b]_vars

\* 1 -> 3 was staged, then 2 -> 3: the plan of 1 was removed and 2 -> 3 is
\* the only plan left.
C16_Witness ==
    /\ op = "handlePlanDrop"
    /\ call.draggedPlayerId = 2 /\ call.targetPlayerId = 3
    /\ call.removed = {1}
    /\ Len(plannedSwaps) = 1
    /\ plannedSwaps[1].benchPlayerId = 2 /\ plannedSwaps[1].targetFieldPlayerId = 3

\* ---- C17
\* C17: the reference run.  With player 1 on field and player 2 on bench:
\* after start at t = 0 and stop at t = 30 s, player 1 has 30 seconds and is
\* a starter; after moving player 2 bench -> field at t = 31 s (clock
\* stopped) player 2 has no timer, 0 seconds and subbedOnCount 1; after the
\* restart at t = 31 s both timers are set to that instant; after the stop at
\* t = 61 s player 1 has 60 seconds, player 2 has 30 and is still no starter.
C17_ReferenceScenario ==
    /\ call.stage = 2
         => Entry(1).playtimeSeconds = 30 /\ Entry(1).isStarter
    /\ call.stage = 3
         => /\ Entry(2).playtimerStartTime = Null
            /\ Entry(2).playtimeSeconds = 0
            /\ Entry(2).subbedOnCount = 1
    /\ call.stage = 4
         => /\ Entry(1).playtimerStartTime = ScenarioTimes[3]
            /\ Entry(2).playtimerStartTime = ScenarioTimes[3]
    /\ call.stage = 5
         => /\ Entry(1).playtimeSeconds = 60
            /\ Entry(2).playtimeSeconds = 30
            /\ ~Entry(2).isStarter

\* The reference run was made to its end: the clock is stopped at t = 61 s
\* with 60 seconds banked.
C17_Witness ==
    /\ call.stage = 5
    /\ now = ScenarioTimes[4]
    /\ game.timerStatus = "stopped"
    /\ game.timerElapsedSeconds = 60
    /\ fieldRunMs[1] = 60000 /\ fieldRunMs[2] = 30000

\* ---- C18
\* C18: after a resetGameLineup call every entry of the game's lineup is on
\* bench with no position, playtimeSeconds 0, no timer start, isStarter
\* false and both substitution counters 0, and the lineup the call returned
\* is the lineup stored for the game.
C18_ResetLineupDefaults ==
    [][Did("resetGameLineup")
         => /\ \A p \in DOMAIN game'.lineup :
                 game'.lineup[p] =
                     [location |-> "bench", position |-> Undefined, playtimeSeconds |-> 0,
                      playtimerStartTime |-> Null, isStarter |-> FALSE,
                      subbedOnCount |-> 0, subbedOffCount |-> 0]
            /\ call'.returned = game'.lineup]_vars

\* The lineup was reset while the clock ran, after an entry had started the
\* game on field: every entry is back on the bench.
C18_Witness ==
    /\ op = "resetGameLineup"
    /\ game.timerStatus = "running"
    /\ firstStarters # {}
    /\ call.returned = game.lineup
    /\ \A p \in Entries : Entry(p).location = "bench" /\ ~Entry(p).isStarter

\* ---- C19
\* C19: in every reachable state the lineup of every game holds an entry for
\* exactly the ids of the roster.
C19_LineupsInSyncWithRoster ==
    /\ DOMAIN game.lineup = players
    /\ \A i \in 1..Len(otherGames) : DOMAIN otherGames[i].lineup = players

\* ---- C20
\* C20: a startGameTimer call that starts the clock (the game is not
\* finished) sets the timer start of every field entry that has none to now,
\* leaves the timer start of a field entry that already has one as it is,
\* and leaves every entry off the field without a timer start.
C20_StartSetsUnsetFieldTimers ==
    [][(Did("startGameTimer") /\ ~game.isExplicitlyFinished)
         => \A p \in Entries :
              game'.lineup[p].playtimerStartTime =
                  IF Entry(p).location = "field"
                  THEN (IF Entry(p).playtimerStartTime = Null THEN now
                        ELSE Entry(p).playtimerStartTime)
                  ELSE Null]_vars

\* ---- C21
\* C21: when stopGameTimer or markGameAsFinished acts on a running clock,
\* every entry on field or inactive that has a timer start gets
\* (now - start), rounded to whole seconds, added to its playtimeSeconds and
\* its timer start cleared, with its other fields as they were; every other
\* entry is unchanged; and afterwards no entry has a timer start.
C21_StopCascade ==
    [][((Did("stopGameTimer") \/ Did("markGameAsFinished"))
          /\ game.timerStatus = "running")
         => \A p \in Entries :
              /\ game'.lineup[p] =
                     IF Entry(p).location \in {"field", "inactive"}
                        /\ Entry(p).playtimerStartTime # Null
                     THEN [Entry(p) EXCEPT
                               !.playtimeSeconds =
                                   @ + NearestSecond(now - Entry(p).playtimerStartTime),
                               !.playtimerStartTime = Null]
                     ELSE Entry(p)
              /\ game'.lineup[p].playtimerStartTime = Null]_vars

\* The game was finished while the clock ran: a field entry has its 500 ms
\* banked as one second, a bench entry is untouched, nobody has a timer.
C21_Witness ==
    /\ op = "markGameAsFinished"
    /\ game.isExplicitlyFinished
    /\ \A p \in Entries : Entry(p).playtimerStartTime = Null
    /\ \E p, q \in Entries :
        /\ Entry(p).location = "field" /\ Entry(p).playtimeSeconds = 1 /\ banks[p] = 1
        /\ Entry(q).location = "bench" /\ Entry(q).playtimeSeconds = 0

C23_MoveWithBadReferenceIsNoOp ==
    [][(Did("movePlayerInGame") /\ call' # NoCall
          /\ \/ call'.gameId \notin 1..Len(gamesArray)
             \/ /\ call'.gameId \in 1..Len(gamesArray)
                /\ \/ "lineup" \notin DOMAIN gamesArray[call'.gameId]
                   \/ /\ "lineup" \in DOMAIN gamesArray[call'.gameId]
                      /\ call'.playerId \notin DOMAIN gamesArray[call'.gameId].lineup)
         => game' = game /\ otherGames' = otherGames]_vars

\* A move was asked for the game without a lineup after an entry of the
\* first game had been placed on field and the score set: nothing moved.
C23_Witness ==
    /\ op = "movePlayerInGame"
    /\ call # NoCall
    /\ call.gameId = 2
    /\ otherGames = <<loadedGameWithoutLineup>>
    /\ game.homeScore = 1
    /\ \E p \in Entries : Entry(p).location = "field"

\* ---- C25
\* C25: a movePlayerInGame call changes nothing but the entry it names: the
\* other games, the named game's score, clock fields and isExplicitlyFinished
\* flag, every other entry of its lineup, and the named entry's isStarter
\* flag are as before.
C25_MoveChangesOnlyNamedEntry ==
    [][(Did("movePlayerInGame") /\ call' # NoCall)
         => /\ otherGames' = otherGames
            /\ [game' EXCEPT !.lineup = game.lineup] = game
            /\ \A p \in Entries :
                 IF call'.gameId = 1 /\ p = call'.playerId
                 THEN game'.lineup[p].isStarter = Entry(p).isStarter
                 ELSE game'.lineup[p] = Entry(p)]_vars

\* A starter was moved from the field to the bench while the clock ran and
\* the score stood at 1 : 0; it is still a starter and the clock still runs.
C25_Witness ==
    /\ op = "movePlayerInGame"
    /\ call # NoCall
    /\ call.gameId = 1
    /\ call.playerId \in Entries
    /\ game.timerStatus = "running"
    /\ game.homeScore = 1
    /\ Entry(call.playerId).location = "bench"
    /\ Entry(call.playerId).isStarter
    /\ Entry(call.playerId).subbedOffCount = 1

\* ---- C24
\* C24 as stated: a drop whose target location is the entry's current
\* location leaves the entry (location, position, playtimeSeconds,
\* playtimerStartTime, counters) unchanged.
C24_SameLocationMoveIsNoOp ==
    [][(Did("handleDropInGame") /\ call'.targetLocation = Entry(call'.id).location)
         => game'.lineup[call'.id] = Entry(call'.id)]_vars

\* C24 amended: a drop whose target location is the entry's current location
\* leaves the entry's location, isStarter flag and counters unchanged.  On
\* bench or inactive it changes nothing at all.  On field it sets the
\* entry's position to the drop coordinate, or to the position of the field
\* occupant dropped on, and, when the clock runs, banks the rounded running
\* interval into playtimeSeconds and restarts the entry's timer at the
\* current time.
C24_SameLocationMove ==
    [][(Did("handleDropInGame") /\ call'.targetLocation = Entry(call'.id).location)
         => LET d == call'.id
                before == Entry(d)
                after == game'.lineup[d]
                running == game.timerStatus = "running"
            IN /\ after.location = before.location
               /\ after.isStarter = before.isStarter
               /\ after.subbedOnCount = before.subbedOnCount
               /\ after.subbedOffCount = before.subbedOffCount
               /\ before.location # "field" => game' = game
               /\ before.location = "field" =>
                    /\ \/ after.position = <<call'.xPercent, call'.yPercent>>
                       \/ \E o \in Entries \ {d} :
                            /\ Entry(o).location = "field"
                            /\ after.position = Entry(o).position
                    /\ after.playtimeSeconds =
                           IF before.playtimerStartTime # Null
                           THEN before.playtimeSeconds
                                + NearestSecond(now - before.playtimerStartTime)
                           ELSE before.playtimeSeconds
                    /\ after.playtimerStartTime = IF running THEN now ELSE Null]_vars

\* A field player whose timer had run 500 ms was dropped on the field again
\* at another coordinate: the position is the new coordinate, one second is
\* banked and the timer restarted at the current time.
C24_Witness ==
    /\ op = "handleDropInGame"
    /\ call.sourceLocation = "field" /\ call.targetLocation = "field"
    /\ game.timerStatus = "running"
    /\ Entry(call.id).position = <<60, 50>>
    /\ Entry(call.id).playtimeSeconds = 1
    /\ Entry(call.id).playtimerStartTime = now
    /\ banks[call.id] = 1
    /\ Entry(call.id).subbedOffCount = 0

\* ---- C26
\* C26: handleTogglePlanningMode pressed while planning mode is inactive
\* leaves planning mode inactive and the plan set empty when the game is
\* finished, and otherwise activates planning mode with an empty plan set;
\* the game is untouched either way.
C26_EnterPlanningMode ==
    [][(Did("handleTogglePlanningMode") /\ ~isPlanningSubs)
         => /\ isPlanningSubs' = ~game.isExplicitlyFinished
            /\ plannedSwaps' = <<>>
            /\ game' = game]_vars

\* Planning mode was asked for on a game that had been started and then
\* finished: it stays inactive with no plan.
C26_Witness ==
    /\ op = "handleTogglePlanningMode"
    /\ game.isExplicitlyFinished
    /\ ~isPlanningSubs
    /\ plannedSwaps = <<>>
    /\ everStarted
    /\ game.timerStatus = "stopped"

\* ---- C27
\* C27: while planning mode is active, a handleDropInGame drop on field,
\* bench or inactive and a handleResetGameLineup request leave the game, and
\* with it every lineup entry, unchanged; a handlePlanDrop stages a bench
\* player onto a field player and leaves the game unchanged as well.
C27_PlanningSuspendsLineupInput ==
    [][isPlanningSubs
         => /\ (Did("handleDropInGame") \/ Did("handleResetGameLineup")
                 \/ Did("handlePlanDrop")) => game' = game
            /\ (Did("handleDropInGame") \/ Did("handleResetGameLineup"))
                 => plannedSwaps' = plannedSwaps
            /\ Did("handlePlanDrop")
                 => /\ Entry(call'.draggedPlayerId).location = "bench"
                    /\ Entry(call'.targetPlayerId).location = "field"]_vars

\* A drop was made in planning mode with one plan staged: the plan is still
\* staged, its bench player still on the bench and its target on the field.
C27_Witness ==
    /\ op = "handleDropInGame"
    /\ isPlanningSubs
    /\ Len(plannedSwaps) = 1
    /\ Entry(plannedSwaps[1].benchPlayerId).location = "bench"
    /\ Entry(plannedSwaps[1].targetFieldPlayerId).location = "field"

\* ---- C28
\* C28: in every reachable state the plan set is non-empty only while
\* planning mode is active, and right after handleConfirmPlan or
\* handleCancelPlan planning mode is inactive and the plan set is empty.
C28_PlansOnlyWhilePlanning ==
    /\ [](plannedSwaps # <<>> => isPlanningSubs)
    /\ [][(Did("handleConfirmPlan") \/ Did("handleCancelPlan"))
            => ~isPlanningSubs' /\ plannedSwaps' = <<>>]_vars

\* A staged plan was committed: its bench player is on the field, its
\* target on the bench, planning mode is off and no plan is left.
C28_Witness ==
    /\ op = "handleConfirmPlan"
    /\ ~isPlanningSubs
    /\ plannedSwaps = <<>>
    /\ \E p \in Entries : fieldToBench[p] = 1 /\ Entry(p).location = "bench"

\* ---- C29
\* C29: when handlePlanDrop stages bench player A onto field player Y while
\* a plan A -> X is staged, the plan set afterwards holds exactly one plan
\* for A, its target is Y, no plan targets X (if X is not Y), and no other
\* bench player's plan targets Y.
C29_RestagingReplacesPlan ==
    [][(Did("handlePlanDrop") /\ call'.priorTarget # 0)
         => LET A == call'.draggedPlayerId
                X == call'.priorTarget
                Y == call'.targetPlayerId
                after == plannedSwaps'
                plansOf(b) == {i \in 1..Len(after) : after[i].benchPlayerId = b}
                plansOn(f) == {i \in 1..Len(after) : after[i].targetFieldPlayerId = f}
            IN /\ Cardinality(plansOf(A)) = 1
               /\ \A i \in plansOf(A) : after[i].targetFieldPlayerId = Y
               /\ X # Y => plansOn(X) = {}
               /\ plansOn(Y) = plansOf(A)]_vars

\* Bench player A, staged onto X, was staged onto Y, which another bench
\* player had been staged onto: A -> Y is the only plan left.
C29_Witness ==
    /\ op = "handlePlanDrop"
    /\ call.priorTarget # 0
    /\ call.priorTarget # call.targetPlayerId
    /\ call.removed # {}
    /\ Len(plannedSwaps) = 1
    /\ plannedSwaps[1].benchPlayerId = call.draggedPlayerId
    /\ plannedSwaps[1].targetFieldPlayerId = call.targetPlayerId

\* ---- C30
\* C30: a periodic display tick (updateDisplay for the game clock, the
\* interval callback for a player's playtime) changes no persisted game
\* state: the game record, with its clock fields and every lineup entry, and
\* the other games are the same after the tick as before it.
C30_DisplayTickKeepsGame ==
    [][(Did("updateDisplay") \/ Did("playerTimerInterval"))
         => game' = game /\ otherGames' = otherGames]_vars

\* Half a second into a running game both displays were ticked: they show
\* 500 ms while the banked seconds of the clock and of the field entry are 0.
C30_Witness ==
    /\ op = "playerTimerInterval"
    /\ game.timerStatus = "running"
    /\ game.timerElapsedSeconds = 0
    /\ gameDisplaySeconds = 2 * TickMs
    /\ \E p \in Entries :
        /\ Entry(p).location = "field"
        /\ Entry(p).playtimeSeconds = 0
        /\ p \in DOMAIN playerDisplayTimes
        /\ playerDisplayTimes[p] = 2 * TickMs

\* ---- C31
\* C31: the values the display effects and interval callbacks show are
\* projections of the stored state and the current time, and computing them
\* leaves the game unchanged.  The game value (in ms) is timerElapsedSeconds
\* when the clock is stopped and timerElapsedSeconds + (now - timerStartTime)
\* when it runs; a player's value is playtimeSeconds + (now -
\* playtimerStartTime) when the entry is on field, the clock runs and
\* playtimerStartTime is set, and playtimeSeconds otherwise.
C31_DisplayProjections ==
    [][LET gameValue == IF game.timerStatus = "running"
                        THEN game.timerElapsedSeconds * 1000 + (now - game.timerStartTime)
                        ELSE game.timerElapsedSeconds * 1000
           playerValue(p) ==
               IF /\ Entry(p).location = "field"
                  /\ game.timerStatus = "running"
                  /\ Entry(p).playtimerStartTime # Null
               THEN Entry(p).playtimeSeconds * 1000 + (now - Entry(p).playtimerStartTime)
               ELSE Entry(p).playtimeSeconds * 1000
       IN /\ (Did("gameTimerDisplayEffect") \/ Did("updateDisplay"))
               => gameDisplaySeconds' = gameValue /\ game' = game
          /\ Did("playerTimerManagementEffect")
               => /\ DOMAIN playerDisplayTimes' = Entries
                  /\ \A p \in Entries : playerDisplayTimes'[p] = playerValue(p)
                  /\ game' = game
          /\ Did("playerTimerInterval")
               => /\ \E p \in Entries \cap DOMAIN playerDisplayTimes' :
                       /\ playerDisplayTimes'[p] = playerValue(p)
                       /\ \A q \in DOMAIN playerDisplayTimes \ {p} :
                            playerDisplayTimes'[q] = playerDisplayTimes[q]
                  /\ game' = game]_vars

\* Half a second into a running game the player effect ran after the game
\* effect: the clock and a field entry show 500 ms, a bench entry shows its
\* stored 0 seconds.
C31_Witness ==
    /\ op = "playerTimerManagementEffect"
    /\ game.timerStatus = "running"
    /\ game.timerStartTime = now - 2 * TickMs
    /\ gameDisplaySeconds = 2 * TickMs
    /\ DOMAIN playerDisplayTimes = Entries
    /\ \E p \in Entries : Entry(p).location = "field" /\ playerDisplayTimes[p] = 2 * TickMs
    /\ \E p \in Entries : Entry(p).location = "bench" /\ playerDisplayTimes[p] = 0

\* ---- C32
\* C32 as stated: the game's elapsed time is monotonic: in no step does the
\* banked timerElapsedSeconds become smaller, and in no step does the
\* projected value (timerElapsedSeconds plus the time since timerStartTime
\* while the clock runs, in ms) become smaller.
C32_ElapsedMonotonic ==
    [][LET projected(g, t) ==
               g.timerElapsedSeconds * 1000
               + IF g.timerStatus = "running" THEN t - g.timerStartTime ELSE 0
       IN /\ game'.timerElapsedSeconds >= game.timerElapsedSeconds
          /\ projected(game', now') >= projected(game, now)]_vars

\* ---- C33
\* C33: in every state the components read after handleConfirmPlan was
\* called with the staged pairs, either every pair is applied (its bench
\* player on field, its field player on bench) or none is (its bench player
\* on bench, its field player on field): no state has only some pairs
\* applied or a field player benched while the replacement is on bench.
C33_CommitIsObservedWhole ==
    "committed" \in DOMAIN call
        => LET applied(e) == /\ Entry(e.benchPlayerId).location = "field"
                             /\ Entry(e.targetFieldPlayerId).location = "bench"
               untouched(e) == /\ Entry(e.benchPlayerId).location = "bench"
                               /\ Entry(e.targetFieldPlayerId).location = "field"
               pairs == {call.committed[i] : i \in 1..Len(call.committed)}
           IN \/ pendingUpdates # <<>> /\ \A e \in pairs : untouched(e)
              \/ pendingUpdates = <<>> /\ \A e \in pairs : applied(e)

\* A plan of two pairs was committed while the clock ran and the batch was
\* applied: both bench players are on field with running timers, both
\* former field players on bench.
C33_Witness ==
    /\ op = "flushUpdates"
    /\ "committed" \in DOMAIN call
    /\ Len(call.committed) = 2
    /\ pendingUpdates = <<>>
    /\ ~isPlanningSubs
    /\ game.timerStatus = "running"
    /\ \A i \in 1..2 :
        /\ Entry(call.committed[i].benchPlayerId).location = "field"
        /\ Entry(call.committed[i].benchPlayerId).playtimerStartTime = now
        /\ Entry(call.committed[i].targetFieldPlayerId).location = "bench"

\* ---- C34
\* C34: in every reachable state the clock's timerStartTime is set exactly
\* when timerStatus is running.
C34_StartTimeIffRunning ==
    (game.timerStartTime # Null) <=> (game.timerStatus = "running")

\* The clock was started, ran for 500 ms and was stopped: one second is
\* banked and the start time is cleared.
C34_Witness ==
    /\ op = "stopGameTimer"
    /\ everStarted
    /\ game.timerStatus = "stopped"
    /\ game.timerStartTime = Null
    /\ game.timerElapsedSeconds = 1
    /\ ~game.isExplicitlyFinished

\* ---- C35
\* C35: in every reachable state in which the clock runs, every entry on
\* field has its playtimerStartTime set.
C35_FieldEntriesTimedWhileRunning ==
    game.timerStatus = "running"
        => \A p \in Entries :
               Entry(p).location = "field" => Entry(p).playtimerStartTime # Null

\* While the clock ran, a bench player was dropped on a field player: the
\* player who came on has a timer started at the drop, the one who went off
\* has none.
C35_Witness ==
    /\ op = "handleDropInGame"
    /\ game.timerStatus = "running"
    /\ game.timerStartTime < now
    /\ \E p, q \in Entries :
        /\ Entry(p).location = "field" /\ Entry(p).playtimerStartTime = now
        /\ benchToField[p] >= 1
        /\ Entry(q).location = "bench" /\ Entry(q).playtimerStartTime = Null
        /\ banks[q] = 1

\* ---- C36
\* C36: in every reachable state in which the game is finished the clock is
\* stopped, timerStartTime is not set and no entry has a playtimerStartTime;
\* and no step taken in a finished game changes timerElapsedSeconds.
C36_FinishedGameHasNoTimers ==
    /\ [](game.isExplicitlyFinished
            => /\ game.timerStatus = "stopped"
               /\ game.timerStartTime = Null
               /\ \A p \in Entries : Entry(p).playtimerStartTime = Null)
    /\ [][game.isExplicitlyFinished
            => game'.timerElapsedSeconds = game.timerElapsedSeconds]_vars

\* In a finished game that had run for a second an entry was moved from
\* the bench onto the field: it has no timer.
C36_Witness ==
    /\ op = "movePlayerInGame"
    /\ game.isExplicitlyFinished
    /\ game.timerElapsedSeconds = 1
    /\ \E p \in Entries :
        /\ Entry(p).location = "field"
        /\ Entry(p).playtimerStartTime = Null
        /\ Entry(p).playtimeSeconds = 0
        /\ benchToField[p] = 1

\* ---- C37
\* C37 as stated: planning mode is never active in a state in which the
\* game is finished, and handleConfirmPlan is never executed against a
\* finished game.
C37_NoPlanningWhenFinished ==
    /\ [](~(isPlanningSubs /\ game.isExplicitlyFinished))
    /\ [][Did("handleConfirmPlan") => ~game.isExplicitlyFinished]_vars

\* ---- C38
\* C38 as stated: in every reachable state each entry's live playtime
\* (playtimeSeconds plus the time since playtimerStartTime when set) is at
\* most the game's live elapsed time (timerElapsedSeconds plus the time
\* since timerStartTime when the clock runs); both in ms.
C38_PlaytimeWithinGameTime ==
    LET gameLive == game.timerElapsedSeconds * 1000
                    + IF game.timerStatus = "running" THEN now - game.timerStartTime ELSE 0
        playerLive(p) == Entry(p).playtimeSeconds * 1000
                         + IF Entry(p).playtimerStartTime # Null
                           THEN now - Entry(p).playtimerStartTime ELSE 0
    IN \A p \in Entries : playerLive(p) <= gameLive

\* The queued moves each name, as sourceLocation, the location their entry
\* has in the game the earlier moves of the queue have produced.
RECURSIVE SourcesMatch(_, _)
SourcesMatch(g, queue) ==
    IF queue = <<>> THEN TRUE
    ELSE LET u == Head(queue) IN
         /\ u.set = "games" => /\ u.playerId \in DOMAIN g.lineup
                               /\ g.lineup[u.playerId].location = u.sourceLocation
         /\ SourcesMatch(applyQueued(g, <<u>>), Tail(queue))

\* ---- C39
\* C39: every movePlayerInGame call that handleDropInGame or
\* handleConfirmPlan issues passes as sourceLocation the location its entry
\* has in the state the call is applied to, the second call of a swap and
\* every call of a commit of several pairs included; so no call drops a
\* running timer without banking it.
C39_IssuedMovesNameActualSource ==
    [][Did("flushUpdates")
         => /\ SourcesMatch(game, pendingUpdates)
            /\ \A p \in Entries :
                 (Entry(p).playtimerStartTime # Null
                  /\ game'.lineup[p].playtimerStartTime # Entry(p).playtimerStartTime)
                   => game'.lineup[p].playtimeSeconds
                        = Entry(p).playtimeSeconds
                          + NearestSecond(now - Entry(p).playtimerStartTime)]_vars

\* While the clock ran, a field player was dropped on another field player
\* half a second after the start: both moves named field as their source,
\* both timers were banked and restarted.
C39_Witness ==
    /\ op = "flushUpdates"
    /\ "sourceLocation" \in DOMAIN call
    /\ call.sourceLocation = "field" /\ call.targetLocation = "field"
    /\ game.timerStatus = "running"
    /\ \A p \in Entries :
        Entry(p).location = "field"
            => /\ Entry(p).playtimeSeconds = 1
               /\ Entry(p).playtimerStartTime = now
               /\ banks[p] = 1

\* ---- C40
\* C40: resetGameLineup changes nothing of the game but its lineup (the
\* clock's timerStatus, timerStartTime and timerElapsedSeconds, the score
\* and isExplicitlyFinished are as before), so after a reset every entry is
\* on bench without a timer even if the clock runs; and a startGameTimer
\* call with timerElapsedSeconds > 0 makes no entry a starter.
C40_ResetKeepsClock ==
    [][/\ Did("resetGameLineup")
            => /\ [game' EXCEPT !.lineup = game.lineup] = game
               /\ \A p \in DOMAIN game'.lineup :
                    /\ game'.lineup[p].location = "bench"
                    /\ game'.lineup[p].playtimerStartTime = Null
                    /\ ~game'.lineup[p].isStarter
       /\ (Did("startGameTimer") /\ game.timerElapsedSeconds > 0)
            => \A p \in Entries : game'.lineup[p].isStarter => Entry(p).isStarter]_vars

\* The lineup was reset half a second into a running game that an entry had
\* started on field: the clock still runs from its start time, every entry
\* is on bench and none has a timer.
C40_Witness ==
    /\ op = "resetGameLineup"
    /\ game.timerStatus = "running"
    /\ game.timerStartTime = now - 2 * TickMs
    /\ game.timerElapsedSeconds = 0
    /\ firstStarters # {}
    /\ \A p \in Entries :
        /\ Entry(p).location = "bench"
        /\ Entry(p).playtimerStartTime = Null
        /\ Entry(p).playtimeSeconds = 0

=============================================================================
